---- MODULE Spec2Model ----
(***************************************************************************)
(* Model of the gtoolkit installer (gtoolkit-maestro-rs): the script       *)
(* sequencer (SmalltalkScriptsToExecute), the concurrent fetch and expand  *)
(* drivers (FilesToDownload, FilesToUnzip), the workspace check, the       *)
(* persisted descriptor and the build pipeline that composes them.         *)
(***************************************************************************)
EXTENDS Integers, Sequences, FiniteSets, TLC

VARIABLES
    pc,        \* position of the process: main / run / Builder::build
    result,    \* what main ends with: the error of run(), or Ok
    opts,      \* the parsed command line (AppOptions + BuildOptions)
    app,       \* the Application (workspace descriptor) of this invocation
    fs,        \* the directories the process touches and the files in them
    oracle,    \* what the release oracle (GitHub latest release) answers
    drv,       \* the two fan-out drivers: drv.download, drv.unzip
    seq,       \* the script sequencer: queue, per-step status, result
    procs,     \* the external processes launched so far, in order
    image,     \* what has been saved into the workspace's snapshot so far
    hist       \* the stages of build entered so far, in order

vars == <<pc, result, opts, app, fs, oracle, drv, seq, procs, image, hist>>

----------------------------------------------------------------------------
(* Bounds of the model *)

\* longest step queue handed to the stand-alone sequencer
MaxSteps == 3
\* most tasks handed to a stand-alone fetch / expand run
MaxTasks == 4
\* most calls made on a stand-alone descriptor
MaxOps == 3
\* most calls made on the stand-alone relocator
MaxMoves == 2
\* most steps executed on their own
MaxCalls == 1

----------------------------------------------------------------------------
(* Values *)

Ok == [kind |-> "Ok", what |-> "", at |-> ""]
None == [kind |-> "None", what |-> "", at |-> ""]
Err(kind, what, at) == [kind |-> kind, what |-> what, at |-> at]
IsErr(r) == r.kind \notin {"Ok", "None"}

SeqsUpTo(S, n) == UNION {[1..k -> S] : k \in 0..n}

----------------------------------------------------------------------------
(* The file system: the directories the process touches                    *)

\* "ws" is the directory named by --workspace; "ext" is a directory outside
\* of it that holds what the user supplies (an image file, a seed archive)
Dirs == {"ws", "ext"}

STATE_FILE == "gtoolkit.yaml"
GT_CLI == "bin/GlamorousToolkit-cli"
PHARO == "pharo-vm/pharo"

----------------------------------------------------------------------------
(* The script sequencer: SmalltalkScriptsToExecute, src/smalltalk          *)

\* SmalltalkEvaluator: the interpreter it drives and its flags
Evaluator(exe, save) ==
    [exe |-> exe, should_save |-> save, should_quit |-> TRUE,
     interactive |-> FALSE]

NoEvaluator == Evaluator("none", FALSE)

\* a sequencer that is not executing
IdleSeq ==
    [scripts |-> <<>>, status |-> <<>>, index |-> 0, ret |-> None,
     evaluator |-> NoEvaluator, active |-> FALSE, spawned |-> FALSE]

\* SmalltalkScriptsToExecute::execute entered with a queue and an evaluator
StartedSeq(scripts, evaluator) ==
    [scripts |-> scripts, status |-> [i \in DOMAIN scripts |-> "Pending"],
     index |-> 0, ret |-> None, evaluator |-> evaluator, active |-> TRUE,
     spawned |-> FALSE]


\* the file SmalltalkEvaluator::command canonicalizes before it spawns
ExecutablePath(exe) == IF exe = "pharo" THEN PHARO ELSE GT_CLI

\* to_absolute::canonicalize(workspace.join(executable)) succeeds
ExecutableExists(exe) ==
    \/ exe = "gtoolkit" /\ app.app_cli_binary
    \/ /\ fs[app.workspace].exists
       /\ ExecutablePath(exe) \in fs[app.workspace].files

\* the error ExecutableSmalltalk::execute returns for a non-zero exit
ScriptFailed(script) == Err("ScriptFailed", script.name, "script")

\* FailStep without the `?`: the error of the step is dropped
FailStepAndGoOn(s, error) ==
    [s EXCEPT !.status[s.index] = "Failed"]

\* the `?` after script.execute: the error leaves the loop and the function
FailStep(s, error) ==
    [s EXCEPT !.status[s.index] = "Failed", !.ret = error]

\* for script in &self.scripts { index += 1; ... : the next step is entered
ScriptsNextStep ==
    /\ seq.active
    /\ seq.ret = None
    /\ seq.index < Len(seq.scripts)
    /\ IF seq.index = 0 THEN TRUE ELSE seq.status[seq.index] # "Running"
    /\ seq' = [seq EXCEPT !.index = @ + 1, !.status[seq.index + 1] = "Running",
                          !.spawned = FALSE]
    /\ UNCHANGED <<pc, result, opts, app, fs, oracle, drv, procs, image, hist>>

\* script.execute: the command is built (the executable is canonicalized)
\* and the external process is spawned
ScriptSpawn ==
    /\ seq.active
    /\ seq.ret = None
    /\ IF seq.index = 0 THEN FALSE ELSE seq.status[seq.index] = "Running"
    /\ ~seq.spawned
    /\ IF ExecutableExists(seq.evaluator.exe)
       THEN /\ seq' = [seq EXCEPT !.spawned = TRUE]
            /\ procs' = Append(procs, [exe |-> seq.evaluator.exe,
                                       name |-> seq.scripts[seq.index].name])
       ELSE /\ seq' = FailStep(seq, Err("CanonicalizeError",
                                        ExecutablePath(seq.evaluator.exe), "script"))
            /\ UNCHANGED procs
    /\ UNCHANGED <<pc, result, opts, app, fs, oracle, drv, image, hist>>

\* command.status(): the external process exits; a non-zero status is an error
ScriptExit ==
    /\ seq.active
    /\ seq.ret = None
    /\ IF seq.index = 0 THEN FALSE ELSE seq.status[seq.index] = "Running"
    /\ seq.spawned
    /\ \E success \in BOOLEAN :
         IF success
         THEN /\ seq' = [seq EXCEPT !.status[seq.index] = "Succeeded"]
              /\ image' = IF seq.evaluator.should_save
                          THEN image \cup {seq.scripts[seq.index].name}
                          ELSE image
         ELSE /\ seq' = FailStep(seq, ScriptFailed(seq.scripts[seq.index]))
              /\ UNCHANGED image
    /\ UNCHANGED <<pc, result, opts, app, fs, oracle, drv, procs, hist>>

\* the loop is exhausted: Ok(())
ScriptsReturn ==
    /\ seq.active
    /\ seq.ret = None
    /\ seq.index = Len(seq.scripts)
    /\ IF seq.index = 0 THEN TRUE ELSE seq.status[seq.index] = "Succeeded"
    /\ seq' = [seq EXCEPT !.ret = Ok]
    /\ UNCHANGED <<pc, result, opts, app, fs, oracle, drv, procs, image, hist>>

----------------------------------------------------------------------------
(* The fan-out drivers: FilesToDownload::download and FilesToUnzip::unzip  *)

\* for_each_concurrent(Some(2), ...): at most this many item futures in flight
CONCURRENCY == 2

Drivers == {"download", "unzip"}

APP_ZIP == "GlamorousToolkitApp.zip"
PHARO_VM_ZIP == "pharo-vm.zip"
SEED_IMAGE_ZIP == "seed-image.zip"
SEED_IMAGE == "seed-image/Pharo.image"
SEED_SOURCES == "seed-image/Pharo.sources"

FileToDownload(url, directory, file_name) ==
    [url |-> url, directory |-> directory, file_name |-> file_name,
     output |-> directory]

FileToUnzip(directory, archive, output) ==
    [url |-> "", directory |-> directory, file_name |-> archive, output |-> output]

\* an entry of an archive: the name it was stored under, and whether
\* ZipFile::enclosed_name() is Some(path), that is whether the name stays
\* inside the directory it is expanded into
ZipEntry(name, enclosed) == [name |-> name, enclosed |-> enclosed]

\* what a complete archive holds; an archive fetched from a given URL may
\* hold an entry whose name leaves the output directory
Contents(archive) ==
    CASE archive = APP_ZIP -> {ZipEntry(GT_CLI, TRUE)}
      [] archive = PHARO_VM_ZIP -> {ZipEntry(PHARO, TRUE)}
      [] archive \in {SEED_IMAGE_ZIP, "seed.zip"} ->
            {ZipEntry(SEED_IMAGE, TRUE), ZipEntry(SEED_SOURCES, TRUE)}
      [] OTHER -> {ZipEntry("out/" \o archive, TRUE),
                   ZipEntry("../" \o archive, FALSE)}

\* Extractable that joins every entry's name to the output directory
ExtractableUnchecked(entries) == {e.name : e \in entries}

\* unzip_task: the entries the loop writes, each at output.join(path); an
\* entry whose enclosed_name() is None is passed over by `continue`
Extractable(entries) == {e.name : e \in {x \in entries : x.enclosed}}

\* a driver that is not running
IdleDrv ==
    [files |-> <<>>, status |-> <<>>, phase |-> <<>>, counted |-> <<>>,
     error |-> <<>>, download_size |-> <<>>, main_pb |-> 0, ret |-> None,
     active |-> FALSE]

\* download() / unzip() entered: the overall bar is at 0 of files.len()
StartedDrv(files) ==
    [files |-> files,
     status |-> [i \in DOMAIN files |-> "Pending"],
     phase |-> [i \in DOMAIN files |-> "new"],
     counted |-> [i \in DOMAIN files |-> FALSE],
     error |-> [i \in DOMAIN files |-> None],
     download_size |-> [i \in DOMAIN files |-> 0],
     main_pb |-> 0, ret |-> None, active |-> TRUE]

\* the item futures for_each_concurrent holds: polled and not yet finished
InFlight(d) == {i \in DOMAIN d.files : d.status[i] # "Pending" /\ ~d.counted[i]}

\* the tasks tokio is running
Running(d) == {i \in DOMAIN d.files : d.status[i] = "Running"}

\* MaySpawn of for_each_concurrent(None, ...): no limit
MaySpawnUnbounded(d, i) ==
    /\ d.status[i] = "Pending"
    /\ \A j \in 1..(i - 1) : d.status[j] # "Pending"

\* for_each_concurrent takes the next item of the stream while it holds fewer
\* than the limit
MaySpawn(d, i) ==
    /\ d.status[i] = "Pending"
    /\ \A j \in 1..(i - 1) : d.status[j] # "Pending"
    /\ Cardinality(InFlight(d)) < CONCURRENCY

\* TaskFails that starts the task again at its probe
TaskRetries(d, i, error) ==
    [d EXCEPT !.phase[i] = "probe", !.error[i] = error,
              !.download_size[i] = 0]

\* a task ends with an error; its progress bar goes with it
TaskFails(d, i, error) ==
    [d EXCEPT !.status[i] = "Failed", !.error[i] = error,
              !.download_size[i] = 0]

TaskAt(k, i, phase) ==
    /\ drv[k].active
    /\ i \in DOMAIN drv[k].files
    /\ drv[k].status[i] = "Running"
    /\ drv[k].phase[i] = phase

\* tokio::task::spawn(download_task(..)) / spawn(lazy(|_| unzip_task(..)))
DriverSpawn(k, i) ==
    /\ drv[k].active
    /\ drv[k].ret = None
    /\ i \in DOMAIN drv[k].files
    /\ MaySpawn(drv[k], i)
    /\ drv' = [drv EXCEPT ![k].status[i] = "Running",
                          ![k].phase[i] = IF k = "download" THEN "probe" ELSE "open"]
    /\ UNCHANGED <<pc, result, opts, app, fs, oracle, seq, procs, image, hist>>

\* the Content-Length header of an answer: absent, not a number, a number
ContentLengths == {"", "chunked", "1024"}

\* headers().get(CONTENT_LENGTH).and_then(to_str).and_then(parse).unwrap_or(0)
ParseLength(header) == IF header = "1024" THEN 1024 ELSE 0

\* DownloadProbe with the output file created ahead of the probe
DownloadProbeAfterCreate(i) ==
    /\ TaskAt("download", i, "probe")
    /\ LET f == drv.download.files[i] IN
       /\ fs' = [fs EXCEPT ![f.directory].files = @ \ {f.file_name},
                           ![f.directory].partial = @ \cup {f.file_name}]
       /\ \E answer \in {"success", "not_success"} :
            drv' = [drv EXCEPT !.download =
               IF answer = "success"
               THEN [@ EXCEPT !.phase[i] = "create"]
               ELSE TaskFails(@, i, Err("CouldntDownloadURL", f.url, "probe"))]
    /\ UNCHANGED <<pc, result, opts, app, oracle, seq, procs, image, hist>>

\* download_task: client.head(url).send(); a non-success status is an error
\* that names the URL; a success gives the size of the task's progress bar
DownloadProbe(i) ==
    /\ TaskAt("download", i, "probe")
    /\ \E answer \in {"success", "not_success", "send_error"},
          header \in ContentLengths :
         /\ answer # "success" => header = ""
         /\ drv' = [drv EXCEPT !.download =
               CASE answer = "success" ->
                       [@ EXCEPT !.phase[i] = "create",
                                 !.download_size[i] = ParseLength(header)]
                 [] answer = "not_success" ->
                       TaskFails(@, i, Err("CouldntDownloadURL", @.files[i].url, "probe"))
                 [] OTHER ->
                       TaskFails(@, i, Err("ReqwestError", "", "probe"))]
    /\ UNCHANGED <<pc, result, opts, app, fs, oracle, seq, procs, image, hist>>

\* download_task: tokio::fs::File::create(directory.join(file_name))
DownloadCreate(i) ==
    /\ TaskAt("download", i, "create")
    /\ LET f == drv.download.files[i] IN
       \E created \in BOOLEAN :
         IF created /\ fs[f.directory].exists
         THEN /\ fs' = [fs EXCEPT ![f.directory].files = @ \ {f.file_name},
                                  ![f.directory].partial = @ \cup {f.file_name}]
              /\ drv' = [drv EXCEPT !.download.phase[i] = "body"]
         ELSE /\ drv' = [drv EXCEPT !.download =
                            TaskFails(@, i, Err("IoError", "", "create"))]
              /\ UNCHANGED fs
    /\ UNCHANGED <<pc, result, opts, app, oracle, seq, procs, image, hist>>

\* download_task: request.send(), the chunk loop and the final flush
DownloadBody(i) ==
    /\ TaskAt("download", i, "body")
    /\ LET f == drv.download.files[i] IN
       \E streamed \in BOOLEAN :
         IF streamed
         THEN /\ fs' = [fs EXCEPT ![f.directory].files = @ \cup {f.file_name},
                                  ![f.directory].partial = @ \ {f.file_name}]
              /\ drv' = [drv EXCEPT !.download.status[i] = "Succeeded",
                                    !.download.download_size[i] = 0]
         ELSE /\ drv' = [drv EXCEPT !.download =
                            TaskFails(@, i, Err("ReqwestError", "", "body"))]
              /\ UNCHANGED fs
    /\ UNCHANGED <<pc, result, opts, app, oracle, seq, procs, image, hist>>

\* unzip_task: File::open(archive).unwrap(); ZipArchive::new(file).unwrap():
\* a missing or truncated archive panics the task
UnzipOpen(i) ==
    /\ TaskAt("unzip", i, "open")
    /\ LET f == drv.unzip.files[i] IN
       drv' = [drv EXCEPT !.unzip =
          IF fs[f.directory].exists /\ f.file_name \in fs[f.directory].files
          THEN [@ EXCEPT !.phase[i] = "extract"]
          ELSE TaskFails(@, i, Err("Panic", f.file_name, "open"))]
    /\ UNCHANGED <<pc, result, opts, app, fs, oracle, seq, procs, image, hist>>

\* unzip_task: the loop over the entries; an I/O error on one entry panics
\* the task and leaves what was written before it
UnzipExtract(i) ==
    /\ TaskAt("unzip", i, "extract")
    /\ LET f == drv.unzip.files[i]
           all == Extractable(Contents(f.file_name)) IN
       \E written \in SUBSET all :
          /\ fs' = [fs EXCEPT ![f.output].files = @ \cup written,
                               ![f.output].exists = @ \/ written # {}]
          /\ drv' = [drv EXCEPT !.unzip =
                IF written = all
                THEN [@ EXCEPT !.status[i] = "Succeeded"]
                ELSE TaskFails(@, i, Err("Panic", f.file_name, "extract"))]
    /\ UNCHANGED <<pc, result, opts, app, oracle, seq, procs, image, hist>>

\* DriverInc with main_pb.inc(1) ahead of the await of the task
DriverIncEarly(k, i) ==
    /\ drv[k].active
    /\ i \in DOMAIN drv[k].files
    /\ drv[k].status[i] \in {"Running", "Succeeded", "Failed"}
    /\ ~drv[k].counted[i]
    /\ drv' = [drv EXCEPT ![k].counted[i] = TRUE, ![k].main_pb = @ + 1]
    /\ UNCHANGED <<pc, result, opts, app, fs, oracle, seq, procs, image, hist>>

\* the item future after its task ended: `let _task = ... .await;
\* main_pb.inc(1);` whatever the task returned
DriverInc(k, i) ==
    /\ drv[k].active
    /\ i \in DOMAIN drv[k].files
    /\ drv[k].status[i] \in {"Succeeded", "Failed"}
    /\ ~drv[k].counted[i]
    /\ drv' = [drv EXCEPT ![k].counted[i] = TRUE, ![k].main_pb = @ + 1]
    /\ UNCHANGED <<pc, result, opts, app, fs, oracle, seq, procs, image, hist>>

\* DriverReturn without `tasks.await`: the driver returns while item futures
\* are still in flight
DriverReturnEarly(k) ==
    /\ drv[k].active
    /\ drv[k].ret = None
    /\ \E joined \in {"Ok", "JoinError", "IoError"} :
         drv' = [drv EXCEPT ![k].ret =
                    IF joined = "Ok" THEN Ok ELSE Err(joined, "", k),
                    ![k].main_pb = Len(drv[k].files)]
    /\ UNCHANGED <<pc, result, opts, app, fs, oracle, seq, procs, image, hist>>

\* the phases of a task in which its progress bar is on the multibar: the
\* bar is added after the probe of a download and after the archive of an
\* unzip is opened
BAR_PHASES == {"create", "body", "extract"}

\* the bars multibar.join() still waits for: those of the running tasks; a
\* task that succeeds finishes its bar, and the bar of a task that returns
\* an error or panics is dropped with the task, which ends it
OpenBars(k) ==
    {i \in DOMAIN drv[k].files :
        drv[k].status[i] = "Running" /\ drv[k].phase[i] \in BAR_PHASES}

\* a join() for which the bar of a failed task is never done
DriverReturnBarsKept(k) ==
    /\ drv[k].active
    /\ drv[k].ret = None
    /\ \A i \in DOMAIN drv[k].files : drv[k].counted[i]
    /\ \A i \in DOMAIN drv[k].files :
          ~(drv[k].status[i] = "Failed" /\ drv[k].phase[i] \in BAR_PHASES)
    /\ \E joined \in {"Ok", "JoinError", "IoError"} :
         drv' = [drv EXCEPT ![k].ret =
                    IF joined = "Ok" THEN Ok ELSE Err(joined, "", k),
                    ![k].main_pb = Len(drv[k].files)]
    /\ UNCHANGED <<pc, result, opts, app, fs, oracle, seq, procs, image, hist>>

\* tasks.await is over; main_pb.finish_with_message("done") puts the bar at
\* its length; Ok(multibar.await??): join() returns once every bar is done,
\* and only the rendering of the progress bars can make the driver return
\* an error
DriverReturn(k) ==
    /\ drv[k].active
    /\ drv[k].ret = None
    /\ \A i \in DOMAIN drv[k].files : drv[k].counted[i]
    /\ OpenBars(k) = {}
    /\ \E joined \in {"Ok", "JoinError", "IoError"} :
         drv' = [drv EXCEPT ![k].ret =
                    IF joined = "Ok" THEN Ok ELSE Err(joined, "", k),
                    ![k].main_pb = Len(drv[k].files)]
    /\ UNCHANGED <<pc, result, opts, app, fs, oracle, seq, procs, image, hist>>

----------------------------------------------------------------------------
(* The workspace descriptor: Application, src/application.rs               *)

DEFAULT_IMAGE_NAME == "GlamorousToolkit"
DEFAULT_IMAGE_EXTENSION == "image"
DEFAULT_PHARO_IMAGE ==
    "https://dl.feenk.com/pharo/Pharo10-SNAPSHOT.build.521.sha.14f5413.arch.64bit.zip"
DEFAULT_PHARO_VM_LINUX_X86_64 ==
    "https://dl.feenk.com/pharo/PharoVM-9.0.15-b487900-Linux-x86_64-bin.zip"

\* Application::gtoolkit_app_url_for_target, for the host
gtoolkit_app_host_url(a) ==
    "https://github.com/feenkcom/gtoolkit-vm/releases/download/v" \o a.app_version
        \o "/GlamorousToolkit-x86_64-unknown-linux-gnu.zip"

\* ImageSeed: Url(url), Zip(path) or Image(path); a path is a directory and
\* a file name in it
ImageSeed(kind, dir, file) == [kind |-> kind, dir |-> dir, file |-> file]

SeedUrl == ImageSeed("Url", "", DEFAULT_PHARO_IMAGE)

\* Application::new
NewApplication(workspace, app_version, image_version, image_seed) ==
    [verbose |-> FALSE,
     workspace |-> workspace,
     app_version |-> app_version,
     app_cli_binary |-> FALSE,
     image_version |-> image_version,
     image_name |-> DEFAULT_IMAGE_NAME,
     image_extension |-> DEFAULT_IMAGE_EXTENSION,
     image_seed |-> image_seed]

NoApplication == NewApplication("", "", "", ImageSeed("", "", ""))

\* serde_yaml's string scalar: a string that would read back as another
\* type (empty, a boolean, null, a number) is written in quotes
YamlString(s) ==
    [style |-> IF s \in {"", "true", "false", "null", "~", "1"}
               THEN "quoted" ELSE "plain",
     text |-> s]

\* ToYaml that writes the seed's variant and leaves its payload out
ToYamlWithoutPayload(a) ==
    [verbose |-> IF a.verbose THEN "true" ELSE "false",
     workspace |-> YamlString(a.workspace),
     app_version |-> YamlString(a.app_version),
     app_cli_binary |-> IF a.app_cli_binary THEN "path" ELSE "null",
     image_version |-> YamlString(a.image_version),
     image_name |-> YamlString(a.image_name),
     image_extension |-> YamlString(a.image_extension),
     image_seed |-> [tag |-> a.image_seed.kind, payload |-> <<"", "">>]]

\* serde_yaml::to_string(&Application): one mapping entry per field of the
\* struct, the seed as a mapping from the variant's name to its payload
ToYaml(a) ==
    [verbose |-> IF a.verbose THEN "true" ELSE "false",
     workspace |-> YamlString(a.workspace),
     app_version |-> YamlString(a.app_version),
     app_cli_binary |-> IF a.app_cli_binary THEN "path" ELSE "null",
     image_version |-> YamlString(a.image_version),
     image_name |-> YamlString(a.image_name),
     image_extension |-> YamlString(a.image_extension),
     image_seed |-> [tag |-> a.image_seed.kind,
                     payload |-> <<a.image_seed.dir, a.image_seed.file>>]]

\* serde_yaml::from_str::<Application>: the fields are read back by name
FromYaml(doc) ==
    [verbose |-> doc.verbose = "true",
     workspace |-> doc.workspace.text,
     app_version |-> doc.app_version.text,
     app_cli_binary |-> doc.app_cli_binary # "null",
     image_version |-> doc.image_version.text,
     image_name |-> doc.image_name.text,
     image_extension |-> doc.image_extension.text,
     image_seed |-> ImageSeed(doc.image_seed.tag, doc.image_seed.payload[1],
                              doc.image_seed.payload[2])]

\* the content of a state file: absent, unreadable, not a descriptor, or the
\* text that was serialized into it
Yaml(kind, doc) == [kind |-> kind, doc |-> doc]

NoYaml == Yaml("absent", ToYaml(NoApplication))

\* to_absolute::canonicalize: the one absolute spelling of a directory
canonicalize(d) ==
    CASE d = "./ws" -> "ws"
      [] d = "ws/../ext" -> "ext"
      [] OTHER -> d

\* Path::exists of a directory, whichever way it is spelled
DirExists(f, d) ==
    IF canonicalize(d) \in DOMAIN f THEN f[canonicalize(d)].exists ELSE FALSE

\* ImageSeed::target_image_directory
target_image_directory(seed, a) ==
    IF seed.kind = "Image" THEN seed.dir ELSE a.workspace

\* the directory a path's file lives in: ImageSeed::seed_image_directory
seed_image_directory(seed, a) ==
    IF seed.kind = "Image" THEN seed.dir ELSE a.workspace

\* a file name cut at its dots
DotParts(file) ==
    CASE file = "Seed.image" -> <<"Seed", "image">>
      [] file = "Bar.image" -> <<"Bar", "image">>
      [] file = "true.image" -> <<"true", "image">>
      [] file = "Bar.tar.gz" -> <<"Bar", "tar", "gz">>
      [] file = ".image" -> <<"", "image">>
      [] file = "Seed." -> <<"Seed", "">>
      [] file = ".." -> <<"", "", "">>
      [] OTHER -> <<file>>

RECURSIVE JoinDots(_)
JoinDots(parts) ==
    IF Len(parts) = 1 THEN parts[1]
    ELSE parts[1] \o "." \o JoinDots(Tail(parts))

\* Path::file_stem is Some: the name is not ".."
HasStem(file) == file \notin {"..", ""}

\* Path::extension is Some: there is a dot, it is not the first character,
\* and the name is not ".."
HasExtension(file) ==
    LET parts == DotParts(file) IN
    /\ HasStem(file)
    /\ Len(parts) >= 2
    /\ ~(Len(parts) = 2 /\ parts[1] = "")

\* Path::file_stem: the name before its last dot, or the whole name
FileStem(file) ==
    LET parts == DotParts(file) IN
    IF HasExtension(file)
    THEN JoinDots(SubSeq(parts, 1, Len(parts) - 1))
    ELSE file

\* Path::extension: the name after its last dot
FileExtension(file) ==
    LET parts == DotParts(file) IN
    IF HasExtension(file) THEN parts[Len(parts)] ELSE ""

\* set_image_seed that falls back to the default extension when the path
\* has none
set_image_seed_defaulting(a, seed, f) ==
    IF seed.kind # "Image"
    THEN [app |-> [a EXCEPT !.image_seed = seed], ret |-> Ok]
    ELSE IF ~DirExists(f, seed.dir)
    THEN [app |-> a, ret |-> Err("CanonicalizeError", seed.dir, "set_image_seed")]
    ELSE IF ~HasStem(seed.file)
    THEN [app |-> [a EXCEPT !.workspace = canonicalize(seed.dir)],
          ret |-> Err("FailedToReadFileName", seed.file, "set_image_seed")]
    ELSE [app |-> [a EXCEPT !.workspace = canonicalize(seed.dir),
                            !.image_name = FileStem(seed.file),
                            !.image_extension =
                                IF HasExtension(seed.file)
                                THEN FileExtension(seed.file)
                                ELSE DEFAULT_IMAGE_EXTENSION,
                            !.image_seed = seed],
          ret |-> Ok]

\* Application::set_image_seed: the descriptor it leaves and what it returns
set_image_seed(a, seed, f) ==
    IF seed.kind # "Image"
    THEN [app |-> [a EXCEPT !.image_seed = seed], ret |-> Ok]
    ELSE IF ~DirExists(f, seed.dir)
    THEN [app |-> a, ret |-> Err("CanonicalizeError", seed.dir, "set_image_seed")]
    ELSE IF ~HasStem(seed.file)
    THEN [app |-> [a EXCEPT !.workspace = canonicalize(seed.dir)],
          ret |-> Err("FailedToReadFileName", seed.file, "set_image_seed")]
    ELSE IF ~HasExtension(seed.file)
    THEN [app |-> [a EXCEPT !.workspace = canonicalize(seed.dir),
                            !.image_name = FileStem(seed.file)],
          ret |-> Err("FailedToReadFileExtension", seed.file, "set_image_seed")]
    ELSE [app |-> [a EXCEPT !.workspace = canonicalize(seed.dir),
                            !.image_name = FileStem(seed.file),
                            !.image_extension = FileExtension(seed.file),
                            !.image_seed = seed],
          ret |-> Ok]

\* serialize_into_file that never creates the file
serialize_nothing(a, f, outcome) == f

\* Application::serialize_into_file: File::create, then file.write
serialize_into_file(a, f, outcome) ==
    LET w == canonicalize(a.workspace) IN
    CASE outcome = "create_error" \/ ~DirExists(f, a.workspace) -> f
      [] outcome = "write_error" ->
            [f EXCEPT ![w].files = @ \cup {STATE_FILE},
                      ![w].yaml = Yaml("malformed", ToYaml(NoApplication))]
      [] OTHER ->
            [f EXCEPT ![w].files = @ \cup {STATE_FILE},
                      ![w].yaml = Yaml("valid", ToYaml(a))]

\* Application::try_from_file: read_to_string, serde_yaml::from_str, and the
\* workspace of the result is the one asked for
try_from_file(workspace, f) ==
    LET y == IF DirExists(f, workspace)
             THEN f[canonicalize(workspace)].yaml ELSE NoYaml
    IN
    CASE y.kind = "valid" ->
            [app |-> [FromYaml(y.doc) EXCEPT !.workspace = workspace], ret |-> Ok]
      [] y.kind = "malformed" ->
            [app |-> NoApplication,
             ret |-> Err("SerializationAsYamlError", STATE_FILE, "load")]
      [] OTHER ->
            [app |-> NoApplication,
             ret |-> Err("SerializationFileReadError", STATE_FILE, "load")]

\* serialization_file().exists()
StateFileExists(workspace, f) ==
    IF DirExists(f, workspace)
    THEN STATE_FILE \in f[canonicalize(workspace)].files
    ELSE FALSE

\* Application::image: workspace.join("{image_name}.{image_extension}")
ImageFile(a) == a.image_name \o "." \o a.image_extension

----------------------------------------------------------------------------
(* The workspace check: Checker::check, src/tools/checker.rs               *)

\* remove_dir_all that unlinks the directory and keeps what was in it
RemoveDirOnly(f, d) == [f EXCEPT ![d].exists = FALSE]

\* tokio::fs::remove_dir_all
RemoveDirAll(f, d) ==
    [f EXCEPT ![d] = [exists |-> FALSE, files |-> {}, partial |-> {}, dirs |-> {},
                      yaml |-> NoYaml]]

\* tokio::fs::create_dir_all
CreateDirAll(f, d) == [f EXCEPT ![d].exists = TRUE]

\* check without the refusal: an existing directory is taken as it is
CheckWithoutRefusal(f, d, should_overwrite, io) ==
    LET removes == should_overwrite /\ f[d].exists
        f1 == IF removes THEN RemoveDirAll(f, d) ELSE f
    IN  IF removes /\ io = "remove_error"
        THEN [fs |-> f, ret |-> Err("IoError", d, "check")]
        ELSE IF io = "create_error"
        THEN [fs |-> f1, ret |-> Err("IoError", d, "check")]
        ELSE [fs |-> CreateDirAll(f1, d), ret |-> Ok]

\* Checker::check on directory d; io says which file-system call fails, if
\* any. The file system it leaves and what it returns
check(f, d, should_overwrite, io) ==
    LET removes == should_overwrite /\ f[d].exists
        f1 == IF removes THEN RemoveDirAll(f, d) ELSE f
    IN  IF removes /\ io = "remove_error"
        THEN [fs |-> f, ret |-> Err("IoError", d, "check")]
        ELSE IF f1[d].exists
        THEN [fs |-> f1, ret |-> Err("WorkspaceAlreadyExists", d, "check")]
        ELSE IF io = "create_error"
        THEN [fs |-> f1, ret |-> Err("IoError", d, "check")]
        ELSE [fs |-> CreateDirAll(f1, d), ret |-> Ok]

----------------------------------------------------------------------------
(* The process: main, run and Builder::build                               *)

VALID_VERSION == "1.0.0"
LATEST_VERSION == "2.0.0"

\* main: print_and_exit on an error of run(), a normal return otherwise
Exit(r) ==
    /\ pc' = "exit"
    /\ result' = r

Done(stage) == hist' = Append(hist, stage)

\* run(): both versions are fetched from the release oracle, the application
\* is created, and the state file, if there is one, is deserialized over it
Run ==
    /\ pc = "run"
    /\ \E vm \in {"", LATEST_VERSION}, img \in {"", LATEST_VERSION} :
         IF vm = ""
         THEN /\ oracle' = oracle + 1
              /\ Exit(Err("FailedToDetectGlamorousAppVersion", "", "run"))
              /\ UNCHANGED app
         ELSE IF img = ""
         THEN /\ oracle' = oracle + 2
              /\ Exit(Err("FailedToDetectGlamorousImageVersion", "", "run"))
              /\ UNCHANGED app
         ELSE /\ oracle' = oracle + 2
              /\ LET created == [NewApplication(opts.workspace, vm, img, SeedUrl)
                                    EXCEPT !.verbose = opts.verbose]
                     loaded == try_from_file(opts.workspace, fs)
                 IN  IF ~StateFileExists(opts.workspace, fs)
                     THEN /\ app' = created
                          /\ pc' = "build"
                          /\ UNCHANGED result
                     ELSE IF IsErr(loaded.ret)
                     THEN /\ app' = created
                          /\ Exit(loaded.ret)
                     ELSE /\ app' = loaded.app
                          /\ pc' = "build"
                          /\ UNCHANGED result
    /\ UNCHANGED <<opts, fs, drv, seq, procs, image, hist>>

\* build: application.set_image_seed(build_options.image_seed())?
BuildSetImageSeed ==
    /\ pc = "build"
    /\ LET r == set_image_seed(app, opts.image_seed, fs) IN
       /\ app' = r.app
       /\ IF IsErr(r.ret)
          THEN Exit(r.ret)
          ELSE pc' = "check" /\ UNCHANGED result
    /\ UNCHANGED <<opts, fs, oracle, drv, seq, procs, image, hist>>

\* build: Checker::new().check(application, should_overwrite).await?
BuildCheck ==
    /\ pc = "check"
    /\ \E io \in {"ok", "remove_error", "create_error"} :
         LET r == check(fs, app.workspace, opts.overwrite, io) IN
         /\ fs' = r.fs
         /\ IF IsErr(r.ret)
            THEN Exit(r.ret) /\ UNCHANGED hist
            ELSE pc' = "serialize" /\ Done("check") /\ UNCHANGED result
    /\ UNCHANGED <<opts, app, oracle, drv, seq, procs, image>>

\* build: application.serialize_into_file()?
BuildSerialize ==
    /\ pc = "serialize"
    /\ \E outcome \in {"ok", "create_error", "write_error"} :
         /\ fs' = serialize_into_file(app, fs, outcome)
         /\ IF outcome = "ok"
            THEN pc' = "download" /\ Done("serialize") /\ UNCHANGED result
            ELSE Exit(Err("IoError", STATE_FILE, "serialize")) /\ UNCHANGED hist
    /\ UNCHANGED <<opts, app, oracle, drv, seq, procs, image>>

\* Downloader::files_to_download: the toolkit's VM, unless a binary is given
files_to_download(a) ==
    IF a.app_cli_binary
    THEN <<>>
    ELSE <<FileToDownload(gtoolkit_app_host_url(a), a.workspace, APP_ZIP)>>

\* ImageSeed::file_to_download
file_to_download(seed, a) ==
    IF seed.kind = "Url"
    THEN <<FileToDownload(seed.file, a.workspace, SEED_IMAGE_ZIP)>>
    ELSE <<>>

\* Downloader::files_to_unzip
files_to_unzip(a) ==
    IF a.app_cli_binary
    THEN <<>>
    ELSE <<FileToUnzip(a.workspace, APP_ZIP, a.workspace)>>

\* an ImageSeed::file_to_unzip that expands what was downloaded only
file_to_unzip_downloaded(seed, a) ==
    IF seed.kind = "Url"
    THEN <<FileToUnzip(a.workspace, SEED_IMAGE_ZIP, a.workspace)>>
    ELSE <<>>

\* ImageSeed::file_to_unzip
file_to_unzip(seed, a) ==
    CASE seed.kind = "Url" ->
            <<FileToUnzip(a.workspace, SEED_IMAGE_ZIP, a.workspace)>>
      [] seed.kind = "Zip" ->
            <<FileToUnzip(seed.dir, seed.file, a.workspace)>>
      [] OTHER -> <<>>

\* build: the files to download are collected and download() is entered
BuildDownload ==
    /\ pc = "download"
    /\ LET pharo_vm == FileToDownload(DEFAULT_PHARO_VM_LINUX_X86_64,
                                      app.workspace, PHARO_VM_ZIP)
           files == files_to_download(app) \o <<pharo_vm>>
                        \o file_to_download(opts.image_seed, app)
       IN  drv' = [drv EXCEPT !.download = StartedDrv(files)]
    /\ pc' = "downloading"
    /\ UNCHANGED <<result, opts, app, fs, oracle, seq, procs, image, hist>>

\* build: files_to_download.download().await?
BuildDownloaded ==
    /\ pc = "downloading"
    /\ drv.download.ret # None
    /\ drv' = [drv EXCEPT !.download.active = FALSE]
    /\ IF IsErr(drv.download.ret)
       THEN Exit(drv.download.ret) /\ UNCHANGED hist
       ELSE pc' = "unzip" /\ Done("download") /\ UNCHANGED result
    /\ UNCHANGED <<opts, app, fs, oracle, seq, procs, image>>

\* build: the archives to expand are collected and unzip() is entered
BuildUnzip ==
    /\ pc = "unzip"
    /\ LET files == files_to_unzip(app)
                        \o <<FileToUnzip(app.workspace, PHARO_VM_ZIP, app.workspace)>>
                        \o file_to_unzip(opts.image_seed, app)
       IN  drv' = [drv EXCEPT !.unzip = StartedDrv(files)]
    /\ pc' = "unzipping"
    /\ UNCHANGED <<result, opts, app, fs, oracle, seq, procs, image, hist>>

\* build: files_to_unzip.unzip().await?
BuildUnzipped ==
    /\ pc = "unzipping"
    /\ drv.unzip.ret # None
    /\ drv' = [drv EXCEPT !.unzip.active = FALSE]
    /\ IF IsErr(drv.unzip.ret)
       THEN Exit(drv.unzip.ret) /\ UNCHANGED hist
       ELSE /\ pc' = IF opts.image_seed.kind = "Image" THEN "loader" ELSE "find_image"
            /\ Done("unzip")
            /\ UNCHANGED result
    /\ UNCHANGED <<opts, app, fs, oracle, seq, procs, image>>

\* build: FileNamed::wildmatch("*.{image_extension}").within(seed dir).find()?
BuildFindSeedImage ==
    /\ pc = "find_image"
    /\ IF SEED_IMAGE \in fs[app.workspace].files
       THEN pc' = "save_seed" /\ UNCHANGED result
       ELSE Exit(Err("FileMatcherError", "*.image", "relocate"))
    /\ UNCHANGED <<opts, app, fs, oracle, drv, seq, procs, image, hist>>

\* build: SmalltalkCommand::new("save").arg(workspace/image_name)
\*            .execute(&seed_evaluator)?  on the pharo executable
BuildSaveSeed ==
    /\ pc = "save_seed"
    /\ IF ~ExecutableExists("pharo")
       THEN /\ Exit(Err("CanonicalizeError", PHARO, "relocate"))
            /\ UNCHANGED <<fs, procs, image>>
       ELSE /\ procs' = Append(procs, [exe |-> "pharo", name |-> "save"])
            /\ \E success \in BOOLEAN :
                 IF success
                 THEN /\ fs' = [fs EXCEPT ![app.workspace].files =
                                            @ \cup {ImageFile(app)}]
                      /\ image' = {}
                      /\ pc' = "move_sources"
                      /\ UNCHANGED result
                 ELSE /\ Exit(Err("CommandFailed", "save", "relocate"))
                      /\ UNCHANGED <<fs, image>>
    /\ UNCHANGED <<opts, app, oracle, drv, seq, hist>>

\* build: FileToMove::new(FileNamed::wildmatch("*.sources").find()?,
\*            workspace).move_file().await?   (copy, then remove)
BuildMoveSources ==
    /\ pc = "move_sources"
    /\ IF SEED_SOURCES \notin fs[app.workspace].files
       THEN /\ Exit(Err("FileMatcherError", "*.sources", "relocate"))
            /\ UNCHANGED <<fs, hist>>
       ELSE \E io \in {"ok", "copy_error", "remove_error"} :
            CASE io = "copy_error" ->
                    /\ Exit(Err("IoError", "Pharo.sources", "relocate"))
                    /\ UNCHANGED <<fs, hist>>
              [] io = "remove_error" ->
                    /\ fs' = [fs EXCEPT ![app.workspace].files =
                                          @ \cup {"Pharo.sources"}]
                    /\ Exit(Err("IoError", SEED_SOURCES, "relocate"))
                    /\ UNCHANGED hist
              [] OTHER ->
                    /\ fs' = [fs EXCEPT ![app.workspace].files =
                                          (@ \cup {"Pharo.sources"}) \ {SEED_SOURCES}]
                    /\ pc' = "loader"
                    /\ Done("relocate")
                    /\ UNCHANGED result
    /\ UNCHANGED <<opts, app, oracle, drv, seq, procs, image>>

\* build: the loader template is compiled, the loader versions are resolved
\* (a request to GitHub unless the version is bleeding-edge) and the script
\* is rendered
BuildLoader ==
    /\ pc = "loader"
    /\ \E resolved \in BOOLEAN :
         IF resolved
         THEN pc' = "create_scripts" /\ UNCHANGED result
         ELSE Exit(Err("FailedToDownloadReleaserVersion", "", "render"))
    /\ UNCHANGED <<opts, app, fs, oracle, drv, seq, procs, image, hist>>

\* build: FileToCreate load-patches.st and load-gt-<version>.st, .create()?
BuildCreateScripts ==
    /\ pc = "create_scripts"
    /\ \E written \in 0..2 :
         /\ fs' = [fs EXCEPT ![app.workspace].files = @ \cup
                      (CASE written = 0 -> {}
                         [] written = 1 -> {"load-patches.st"}
                         [] OTHER -> {"load-patches.st", "load-gt.st"})]
         /\ IF written = 2
            THEN pc' = "patch" /\ Done("render") /\ UNCHANGED result
            ELSE Exit(Err("IoError", "", "render")) /\ UNCHANGED hist
    /\ UNCHANGED <<opts, app, oracle, drv, seq, procs, image>>

PatchScript == [kind |-> "script", name |-> "load-patches.st"]
LoaderScript == [kind |-> "script", name |-> "load-gt.st"]

\* the key files --public-key and --private-key name
PUBLIC_KEY == "id_rsa.pub"
PRIVATE_KEY == "id_rsa"

\* what ssh_keys returns when both are given: Some((private, public))
SshKeyPaths == <<PRIVATE_KEY, PUBLIC_KEY>>

\* build: `if let Some((private, public)) = ssh_keys`, then the expression
\* "IceCredentialsProvider sshCredentials publicKey: '{}'; privateKey: '{}'"
\* formatted with private.display() and public.display(), in this order
SshExpression ==
    LET private == SshKeyPaths[1]
        public == SshKeyPaths[2]
    IN  [kind |-> "expression", name |-> "ssh",
         publicKey |-> private, privateKey |-> public]

\* build: SmalltalkScriptsToExecute::new().add(load-patches.st)
\*            .execute(pharo.evaluator().save(true)) is entered
BuildPatch ==
    /\ pc = "patch"
    /\ seq' = StartedSeq(<<PatchScript>>, Evaluator("pharo", TRUE))
    /\ pc' = "patching"
    /\ UNCHANGED <<result, opts, app, fs, oracle, drv, procs, image, hist>>

\* a patch stage without the `?`: the build goes on whatever was returned
BuildPatchedUnchecked ==
    /\ pc = "patching"
    /\ seq.ret # None
    /\ seq' = [seq EXCEPT !.active = FALSE]
    /\ pc' = "toolkit"
    /\ Done("patch")
    /\ UNCHANGED result
    /\ UNCHANGED <<opts, app, fs, oracle, drv, procs, image>>

\* build: .execute(..).await?  of the patch queue
BuildPatched ==
    /\ pc = "patching"
    /\ seq.ret # None
    /\ seq' = [seq EXCEPT !.active = FALSE]
    /\ IF IsErr(seq.ret)
       THEN Exit(seq.ret) /\ UNCHANGED hist
       ELSE pc' = "toolkit" /\ Done("patch") /\ UNCHANGED result
    /\ UNCHANGED <<opts, app, fs, oracle, drv, procs, image>>

\* BuildOptions::ssh_keys: public_key()?, private_key()?, then both or none
ssh_keys(o) ==
    CASE o.public_key = "missing" ->
            [keys |-> FALSE, ret |-> Err("PublicKeyDoesNotExist", "", "ssh")]
      [] o.private_key = "missing" ->
            [keys |-> FALSE, ret |-> Err("PrivateKeyDoesNotExist", "", "ssh")]
      [] o.public_key = "exists" /\ o.private_key = "exists" ->
            [keys |-> TRUE, ret |-> Ok]
      [] o.public_key = "none" /\ o.private_key = "none" ->
            [keys |-> FALSE, ret |-> Ok]
      [] OTHER ->
            [keys |-> FALSE, ret |-> Err("SshKeysConfigurationError", "", "ssh")]

\* a toolkit stage that adds the credentials after the loader script
BuildToolkitLoaderFirst ==
    /\ pc = "toolkit"
    /\ LET k == ssh_keys(opts) IN
       IF IsErr(k.ret)
       THEN Exit(k.ret) /\ UNCHANGED seq
       ELSE /\ seq' = StartedSeq(<<LoaderScript>>
                                    \o (IF k.keys THEN <<SshExpression>> ELSE <<>>),
                                 Evaluator("gtoolkit", TRUE))
            /\ pc' = "loading"
            /\ UNCHANGED result
    /\ UNCHANGED <<opts, app, fs, oracle, drv, procs, image, hist>>

\* build: ssh_keys()?, the toolkit queue is built and its execute is entered
BuildToolkit ==
    /\ pc = "toolkit"
    /\ LET k == ssh_keys(opts) IN
       IF IsErr(k.ret)
       THEN Exit(k.ret) /\ UNCHANGED seq
       ELSE /\ seq' = StartedSeq((IF k.keys THEN <<SshExpression>> ELSE <<>>)
                                    \o <<LoaderScript>>,
                                 Evaluator("gtoolkit", TRUE))
            /\ pc' = "loading"
            /\ UNCHANGED result
    /\ UNCHANGED <<opts, app, fs, oracle, drv, procs, image, hist>>

\* build: .execute(..).await?  of the toolkit queue, then Ok(())
BuildLoaded ==
    /\ pc = "loading"
    /\ seq.ret # None
    /\ seq' = [seq EXCEPT !.active = FALSE]
    /\ IF IsErr(seq.ret)
       THEN Exit(seq.ret) /\ UNCHANGED hist
       ELSE Exit(Ok) /\ Done("toolkit")
    /\ UNCHANGED <<opts, app, fs, oracle, drv, procs, image>>

----------------------------------------------------------------------------
(* Initial states and specifications                                       *)

Dir(exists, files, yaml) ==
    [exists |-> exists, files |-> files, partial |-> {}, dirs |-> {},
     yaml |-> yaml]

\* what the user may have outside of the workspace: an image and an archive
ExtDir == Dir(TRUE, {"Seed.image", "seed.zip"}, NoYaml)

SavedApplication(cli) ==
    [NewApplication("ws", VALID_VERSION, VALID_VERSION, SeedUrl)
        EXCEPT !.app_cli_binary = cli]

\* the workspace directory before the invocation: absent, empty, or left by
\* an earlier installation with or without a (readable) state file
InitialWorkspaces ==
    {Dir(FALSE, {}, NoYaml), Dir(TRUE, {}, NoYaml),
     Dir(TRUE, {"old", "Seed.image"}, NoYaml),
     Dir(TRUE, {"old", "Seed.image", STATE_FILE},
         Yaml("malformed", ToYaml(NoApplication))),
     Dir(TRUE, {"old", "Seed.image", STATE_FILE},
         Yaml("unreadable", ToYaml(NoApplication)))}
    \cup {Dir(TRUE, {"old", "Seed.image", STATE_FILE},
              Yaml("valid", ToYaml(SavedApplication(cli)))) : cli \in BOOLEAN}

\* BuildOptions::image_seed: --image-zip, --image-url, --image-file or the
\* default URL
Seeds ==
    {SeedUrl, ImageSeed("Zip", "ext", "seed.zip"),
     ImageSeed("Image", "ext", "Seed.image"),
     ImageSeed("Image", "ws", "Seed.image")}

KeyStates == {"none", "exists", "missing"}

\* AppOptions::parse() of a `build` command line
Options ==
    [workspace : {"ws"}, overwrite : BOOLEAN, image_seed : Seeds,
     public_key : KeyStates, private_key : KeyStates, verbose : {FALSE}]

Init ==
    /\ pc = "run"
    /\ result = None
    /\ opts \in Options
    /\ app = NoApplication
    /\ \E ws \in InitialWorkspaces : fs = [d \in Dirs |-> IF d = "ws" THEN ws ELSE ExtDir]
    /\ oracle = 0
    /\ drv = [k \in Drivers |-> IdleDrv]
    /\ seq = IdleSeq
    /\ procs = <<>>
    /\ image = {}
    /\ hist = <<>>

Tasks(k) == DOMAIN drv[k].files

NextDrivers ==
    \/ \E k \in Drivers : \E i \in Tasks(k) : DriverSpawn(k, i)
    \/ \E i \in Tasks("download") : DownloadProbe(i)
    \/ \E i \in Tasks("download") : DownloadCreate(i)
    \/ \E i \in Tasks("download") : DownloadBody(i)
    \/ \E i \in Tasks("unzip") : UnzipOpen(i)
    \/ \E i \in Tasks("unzip") : UnzipExtract(i)
    \/ \E k \in Drivers : \E i \in Tasks(k) : DriverInc(k, i)
    \/ \E k \in Drivers : DriverReturn(k)

NextScripts ==
    \/ ScriptsNextStep
    \/ ScriptSpawn
    \/ ScriptExit
    \/ ScriptsReturn

NextBuild ==
    \/ Run
    \/ BuildSetImageSeed
    \/ BuildCheck
    \/ BuildSerialize
    \/ BuildDownload
    \/ BuildDownloaded
    \/ BuildUnzip
    \/ BuildUnzipped
    \/ BuildFindSeedImage
    \/ BuildSaveSeed
    \/ BuildMoveSources
    \/ BuildLoader
    \/ BuildCreateScripts
    \/ BuildPatch
    \/ BuildPatched
    \/ BuildToolkit
    \/ BuildLoaded

Next == NextBuild \/ NextDrivers \/ NextScripts

\* one invocation of the `build` command, from main to the exit
Spec == Init /\ [][Next]_vars

\* a build in which the installer's own code keeps running, every started
\* download or unzip task takes its next step until it ends, and every
\* launched interpreter process exits
SpecLive ==
    /\ Spec
    /\ WF_vars(NextBuild)
    /\ WF_vars(NextDrivers)
    /\ WF_vars(NextScripts)

\* the workspace a library call runs in: the interpreters it may hold
LibWorkspaces == {Dir(TRUE, x, NoYaml) : x \in SUBSET {GT_CLI, PHARO}}

LibApplication == NewApplication("ws", LATEST_VERSION, LATEST_VERSION, SeedUrl)

\* a call of SmalltalkScriptsToExecute::execute on a queue of up to MaxSteps
InitScripts ==
    /\ pc = "lib"
    /\ result = None
    /\ opts \in {o \in Options : ~o.overwrite /\ o.image_seed = SeedUrl
                                   /\ o.public_key = "none" /\ o.private_key = "none"}
    /\ app = LibApplication
    /\ \E ws \in LibWorkspaces : fs = [d \in Dirs |-> IF d = "ws" THEN ws ELSE ExtDir]
    /\ oracle = 0
    /\ drv = [k \in Drivers |-> IdleDrv]
    /\ \E scripts \in SeqsUpTo({PatchScript, LoaderScript, SshExpression}, MaxSteps) :
       \E exe \in {"pharo", "gtoolkit"}, save \in BOOLEAN :
          seq = StartedSeq(scripts, Evaluator(exe, save))
    /\ procs = <<>>
    /\ image = {}
    /\ hist = <<>>

SpecScripts == InitScripts /\ [][NextScripts]_vars

\* the i-th of the files a stand-alone fetch or expand run is given
NthFile(k, i) ==
    IF k = "download"
    THEN FileToDownload("https://host/f" \o ToString(i), "ws",
                        "f" \o ToString(i) \o ".zip")
    ELSE FileToUnzip("ws", "f" \o ToString(i) \o ".zip", "ws")

\* a call of FilesToDownload::download or of FilesToUnzip::unzip on up to
\* MaxTasks files; the archives to expand are complete, truncated or absent
InitFetch ==
    /\ pc = "lib"
    /\ result = None
    /\ opts \in {o \in Options : ~o.overwrite /\ o.image_seed = SeedUrl
                                   /\ o.public_key = "none" /\ o.private_key = "none"}
    /\ app = LibApplication
    /\ \E k \in Drivers, n \in 0..MaxTasks :
         /\ drv = [j \in Drivers |->
                      IF j = k THEN StartedDrv([i \in 1..n |-> NthFile(k, i)])
                      ELSE IdleDrv]
         /\ \E complete \in SUBSET (1..n), truncated \in SUBSET (1..n) :
              /\ k = "download" => complete = {} /\ truncated = {}
              /\ complete \cap truncated = {}
              /\ fs = [d \in Dirs |->
                         IF d = "ws"
                         THEN [exists |-> TRUE,
                               files |-> {NthFile(k, i).file_name : i \in complete},
                               partial |-> {NthFile(k, i).file_name : i \in truncated},
                               dirs |-> {},
                               yaml |-> NoYaml]
                         ELSE ExtDir]
    /\ oracle = 0
    /\ seq = IdleSeq
    /\ procs = <<>>
    /\ image = {}
    /\ hist = <<>>

SpecFetch == InitFetch /\ [][NextDrivers]_vars

----------------------------------------------------------------------------
(* The descriptor on its own: the public operations of Application, called  *)
(* in any order                                                            *)

\* the seeds set_image_seed is called with
DescSeeds ==
    {SeedUrl, ImageSeed("Zip", "ext", "seed.zip"),
     ImageSeed("Image", "ext", "Seed.image"),
     ImageSeed("Image", "./ws", "Bar.tar.gz"),
     ImageSeed("Image", "ws", "Seed"),
     ImageSeed("Image", "ext", ".image"),
     ImageSeed("Image", "ws", "Seed."),
     ImageSeed("Image", "ext", ".."),
     ImageSeed("Image", "gone", "Seed.image")}

\* the directories a workspace is named by
DescDirs == {"ws", "./ws", "ext"}

DirArg(d) == ImageSeed("", d, "")
NameArg(name) == ImageSeed("", "", name)

\* the calls made so far, the arguments and results of all but the last
\* one forgotten
Forget(h) ==
    [n \in DOMAIN h |->
        IF n = Len(h) THEN h[n]
        ELSE [op |-> h[n].op, arg |-> DirArg(""), ret |-> None]]

\* one more call can be made
CanCall ==
    /\ pc = "lib"
    /\ Len(hist) < MaxOps

\* the call is remembered with its argument and what it returned
Called(op, arg) ==
    /\ hist' = Append(Forget(hist), [op |-> op, arg |-> arg, ret |-> result'])
    /\ UNCHANGED pc

\* Application::for_workspace: from the state file if there is one, from
\* the release oracle otherwise
DescForWorkspace(w) ==
    /\ CanCall
    /\ IF StateFileExists(w, fs)
       THEN LET r == try_from_file(w, fs) IN
            /\ app' = IF IsErr(r.ret) THEN app ELSE r.app
            /\ result' = r.ret
            /\ UNCHANGED oracle
       ELSE \E vm \in {"", LATEST_VERSION}, img \in {"", LATEST_VERSION} :
            IF vm = ""
            THEN /\ oracle' = oracle + 1
                 /\ result' = Err("FailedToDetectGlamorousAppVersion", "", "provision")
                 /\ UNCHANGED app
            ELSE IF img = ""
            THEN /\ oracle' = oracle + 2
                 /\ result' = Err("FailedToDetectGlamorousImageVersion", "", "provision")
                 /\ UNCHANGED app
            ELSE /\ oracle' = oracle + 2
                 /\ result' = Ok
                 /\ app' = NewApplication(w, vm, img, SeedUrl)
    /\ UNCHANGED <<opts, fs, drv, seq, procs, image>>
    /\ Called("for_workspace", DirArg(w))

\* Application::for_workspace_from_file
DescLoad(w) ==
    /\ CanCall
    /\ LET r == try_from_file(w, fs) IN
       /\ app' = IF IsErr(r.ret) THEN app ELSE r.app
       /\ result' = r.ret
    /\ UNCHANGED <<opts, fs, oracle, drv, seq, procs, image>>
    /\ Called("load", DirArg(w))

\* Application::serialize_into_file
DescSave ==
    /\ CanCall
    /\ \E outcome \in {"ok", "create_error", "write_error"} :
         /\ fs' = serialize_into_file(app, fs, outcome)
         /\ result' = IF outcome = "ok" /\ DirExists(fs, app.workspace)
                       THEN Ok ELSE Err("IoError", STATE_FILE, "serialize")
    /\ UNCHANGED <<opts, app, oracle, drv, seq, procs, image>>
    /\ Called("save", DirArg(app.workspace))

\* Application::set_image_seed
DescSetImageSeed(seed) ==
    /\ CanCall
    /\ LET r == set_image_seed(app, seed, fs) IN
       /\ app' = r.app
       /\ result' = r.ret
    /\ UNCHANGED <<opts, fs, oracle, drv, seq, procs, image>>
    /\ Called("set_image_seed", seed)

\* Application::set_workspace
DescSetWorkspace(d) ==
    /\ CanCall
    /\ app' = [app EXCEPT !.workspace = d]
    /\ result' = Ok
    /\ UNCHANGED <<opts, fs, oracle, drv, seq, procs, image>>
    /\ Called("set_workspace", DirArg(d))

\* Renamer::rename: the image is saved under the new name by the toolkit,
\* the descriptor is pointed at it and saved
DescRename(name) ==
    /\ CanCall
    /\ \E saved \in BOOLEAN, outcome \in {"ok", "create_error", "write_error"} :
         IF ~(saved /\ DirExists(fs, app.workspace))
         THEN /\ result' = Err("CommandExecutionFailed", "save", "rename")
              /\ UNCHANGED <<app, fs>>
         ELSE LET w == canonicalize(app.workspace)
                  fs1 == [fs EXCEPT ![w].files =
                             (@ \ {ImageFile(app)}) \cup {name \o ".image"}]
                  r == set_image_seed(app,
                          ImageSeed("Image", app.workspace, name \o ".image"), fs1)
              IN  /\ app' = r.app
                  /\ IF IsErr(r.ret)
                     THEN fs' = fs1 /\ result' = r.ret
                     ELSE /\ fs' = serialize_into_file(r.app, fs1, outcome)
                          /\ result' = IF outcome = "ok" THEN Ok
                                        ELSE Err("IoError", STATE_FILE, "serialize")
    /\ UNCHANGED <<opts, oracle, drv, seq, procs, image>>
    /\ Called("rename", NameArg(name))

\* Version::new(VersionBump::Patch): the version of a first release
NEW_PATCH_VERSION == "Version::new(VersionBump::Patch)"

GTOOLKIT_VERSION_FILE == "gtoolkit.version"

\* AppOptions::ensure_gtoolkit_version: the version that was given, or the
\* one in the version file of the workspace, or the latest release the
\* oracle answers, or the version of a first release when it answers none
ensure_gtoolkit_version(given, w, f, answer) ==
    IF given # ""
    THEN [version |-> given, ret |-> Ok, requests |-> 0]
    ELSE IF DirExists(f, w) /\ GTOOLKIT_VERSION_FILE \in f[canonicalize(w)].files
    THEN [version |-> VALID_VERSION, ret |-> Ok, requests |-> 0]
    ELSE IF answer # ""
    THEN [version |-> answer, ret |-> Ok, requests |-> 1]
    ELSE [version |-> NEW_PATCH_VERSION, ret |-> Ok, requests |-> 1]

\* AppOptions::ensure_gtoolkit_version on options with or without a
\* version; the version the options hold afterwards is returned
DescEnsureGtoolkitVersion(given, w) ==
    /\ CanCall
    /\ \E answer \in {"", LATEST_VERSION} :
         LET r == ensure_gtoolkit_version(given, w, fs, answer) IN
         /\ result' = [r.ret EXCEPT !.what = r.version]
         /\ oracle' = oracle + r.requests
    /\ UNCHANGED <<opts, app, fs, drv, seq, procs, image>>
    /\ Called("ensure_gtoolkit_version", ImageSeed("", w, given))

NextDescriptor ==
    \/ \E w \in DescDirs : DescForWorkspace(w)
    \/ \E given \in {"", VALID_VERSION} : DescEnsureGtoolkitVersion(given, "ws")
    \/ \E w \in DescDirs : DescLoad(w)
    \/ DescSave
    \/ \E seed \in DescSeeds : DescSetImageSeed(seed)
    \/ \E d \in DescDirs : DescSetWorkspace(d)
    \/ \E name \in {"Bar", "true"} : DescRename(name)

\* a new descriptor, one with an explicit toolkit binary, and one that was
\* pointed at an image whose name ends with a dot
InitialDescriptors ==
    {LibApplication,
     [LibApplication EXCEPT !.verbose = TRUE, !.app_cli_binary = TRUE],
     set_image_seed(LibApplication, ImageSeed("Image", "ws", "Seed."),
                    [d \in Dirs |-> ExtDir]).app}

\* a descriptor made by Application::new for the workspace "ws", which is
\* absent, empty or holds the state file of an earlier installation
InitDescriptor ==
    /\ pc = "lib"
    /\ result = None
    /\ opts \in {o \in Options : ~o.overwrite /\ o.image_seed = SeedUrl
                                   /\ o.public_key = "none" /\ o.private_key = "none"}
    /\ app \in InitialDescriptors
    /\ \E ws \in {Dir(FALSE, {}, NoYaml), Dir(TRUE, {}, NoYaml),
                   Dir(TRUE, {"Seed.image", STATE_FILE},
                       Yaml("valid", ToYaml(SavedApplication(FALSE))))} :
         fs = [d \in Dirs |-> IF d = "ws" THEN ws ELSE ExtDir]
    /\ oracle = 0
    /\ drv = [k \in Drivers |-> IdleDrv]
    /\ seq = IdleSeq
    /\ procs = <<>>
    /\ image = {}
    /\ hist = <<>>

SpecDescriptor == InitDescriptor /\ [][NextDescriptor]_vars

----------------------------------------------------------------------------
(* Relocation on its own: FileToMove, src/moving.rs and src/moving/file.rs  *)

\* Regex::is_match of the patterns the callers pass, on the names a
\* directory may hold (the match is not anchored)
Matches(pattern, name) ==
    CASE pattern = ".*image" -> name \in {"Pharo.image"}
      [] pattern = ".*sources" ->
            name \in {"Pharo.sources", "Old.sources", "Backup.sources"}
      [] OTHER -> FALSE

\* the regular files of a directory, whole or truncated
RegularFiles(f, d) == f[canonicalize(d)].files \cup f[canonicalize(d)].partial

\* find_file_matching that takes the first match it meets
find_first_matching(f, pattern, directory) ==
    IF ~DirExists(f, directory)
    THEN [file |-> "", ret |-> Err("IoError", directory, "find")]
    ELSE LET matches == {n \in RegularFiles(f, directory) : Matches(pattern, n)}
         IN  IF matches = {}
             THEN [file |-> "", ret |-> Err("CouldNotFindFile", pattern, "find")]
             ELSE [file |-> CHOOSE n \in matches : TRUE, ret |-> Ok]

\* FileToMove::find_file_matching: read_dir, the regular files whose name
\* matches, and one of three results by their number
find_file_matching(f, pattern, directory) ==
    IF ~DirExists(f, directory)
    THEN [file |-> "", ret |-> Err("IoError", directory, "find")]
    ELSE LET matches == {n \in RegularFiles(f, directory) : Matches(pattern, n)}
         IN  CASE Cardinality(matches) = 0 ->
                    [file |-> "", ret |-> Err("CouldNotFindFile", pattern, "find")]
               [] Cardinality(matches) = 1 ->
                    [file |-> CHOOSE n \in matches : TRUE, ret |-> Ok]
               [] OTHER ->
                    [file |-> "", ret |-> Err("FoundMoreThanOne", pattern, "find")]

\* a path: a directory and a name in it; the empty name is the directory
MovePath(dir, file) == [dir |-> dir, file |-> file]

\* Path::is_dir
IsDir(f, path) ==
    IF path.file = "" THEN DirExists(f, path.dir)
    ELSE DirExists(f, path.dir) /\ path.file \in f[canonicalize(path.dir)].dirs

\* move_file: destination.join(file_name) if the destination is a
\* directory, the destination itself otherwise
MoveTarget(f, name, destination) ==
    IF IsDir(f, destination)
    THEN MovePath(destination.dir,
                  IF destination.file = "" THEN name
                  ELSE destination.file \o "/" \o name)
    ELSE destination

\* tokio::fs::copy(from, to): `to` is created or truncated, then filled; a
\* failure part-way leaves it truncated; when both are the same file it is
\* left truncated
CopyFile(f, from, to, io) ==
    LET src == canonicalize(from.dir)
        dst == canonicalize(to.dir)
    IN
    IF ~DirExists(f, from.dir) \/ from.file \notin RegularFiles(f, from.dir)
          \/ ~DirExists(f, to.dir) \/ io = "open_error"
    THEN [fs |-> f, ret |-> Err("IoError", from.file, "copy")]
    ELSE IF to.file \in f[dst].dirs
    THEN [fs |-> f, ret |-> Err("IoError", to.file, "copy")]
    ELSE IF src = dst /\ from.file = to.file
    THEN [fs |-> [f EXCEPT ![dst].files = @ \ {to.file},
                           ![dst].partial = @ \cup {to.file}],
          ret |-> Ok]
    ELSE IF io = "write_error" \/ from.file \in f[src].partial
    THEN [fs |-> [f EXCEPT ![dst].files = @ \ {to.file},
                           ![dst].partial = @ \cup {to.file}],
          ret |-> IF io = "write_error"
                  THEN Err("IoError", to.file, "copy") ELSE Ok]
    ELSE [fs |-> [f EXCEPT ![dst].files = @ \cup {to.file},
                           ![dst].partial = @ \ {to.file}],
          ret |-> Ok]

\* tokio::fs::remove_file
RemoveFile(f, path) ==
    [f EXCEPT ![canonicalize(path.dir)].files = @ \ {path.file},
              ![canonicalize(path.dir)].partial = @ \ {path.file}]

\* what is remembered of a call of the relocator
MoveArg(pattern, from, destination, whole) ==
    [pattern |-> pattern, from |-> from, destination |-> destination,
     whole |-> whole]

NoMoveArg == MoveArg("", MovePath("", ""), MovePath("", ""), FALSE)

\* of the earlier calls only their number is kept
ForgetMoves(h) ==
    [n \in DOMAIN h |-> [op |-> "earlier", arg |-> NoMoveArg, ret |-> Ok]]

\* one more call of the relocator can be made
CanMove ==
    /\ pc = "lib"
    /\ Len(hist) < MaxMoves

\* the destinations the callers pass: the workspace, a file path in it, the
\* directory the file is in
Destinations ==
    {MovePath("ws", ""), MovePath("ws", "GlamorousToolkit.image"),
     MovePath("ext", "")}

\* find_file_matching called on its own
MoveFind(pattern, directory) ==
    /\ CanMove
    /\ LET r == find_file_matching(fs, pattern, directory) IN
       /\ result' = r.ret
       /\ hist' = Append(ForgetMoves(hist),
                         [op |-> "find",
                          arg |-> MoveArg(pattern, MovePath(directory, r.file),
                                          MovePath("", ""), FALSE),
                          ret |-> r.ret])
    /\ UNCHANGED <<pc, opts, app, fs, oracle, drv, seq, procs, image>>

\* move_file up to and with the copy, of the file at `from`
MoveCopy(op, pattern, from, destination, found) ==
    IF IsErr(found)
    THEN /\ result' = found
         /\ hist' = Append(ForgetMoves(hist),
                           [op |-> op,
                            arg |-> MoveArg(pattern, from, destination, FALSE),
                            ret |-> found])
         /\ UNCHANGED fs
    ELSE \E io \in {"ok", "open_error", "write_error"} :
         LET r == CopyFile(fs, from, MoveTarget(fs, from.file, destination), io)
         IN  /\ fs' = r.fs
             /\ result' = IF IsErr(r.ret) THEN r.ret ELSE None
             /\ hist' = Append(ForgetMoves(hist),
                               [op |-> op,
                                arg |-> MoveArg(pattern, from, destination,
                                                from.file \in fs[canonicalize(from.dir)].files),
                                ret |-> IF IsErr(r.ret) THEN r.ret ELSE None])

\* src/moving.rs, FileToMove::move_file: the file is found by its pattern
MoveByPattern(pattern, directory, destination) ==
    /\ CanMove
    /\ destination.file = "" => DirExists(fs, destination.dir)
    /\ LET r == find_file_matching(fs, pattern, directory) IN
       MoveCopy("move", pattern, MovePath(directory, r.file), destination, r.ret)
    /\ UNCHANGED <<pc, opts, app, oracle, drv, seq, procs, image>>

\* src/moving/file.rs, FileToMove::move_file: the file is given
MoveByPath(from, destination) ==
    /\ CanMove
    /\ destination.file = "" => DirExists(fs, destination.dir)
    /\ MoveCopy("move", "", from, destination, Ok)
    /\ UNCHANGED <<pc, opts, app, oracle, drv, seq, procs, image>>

\* move_file after the copy: tokio::fs::remove_file(&file), then Ok(())
MoveRemove ==
    /\ pc = "lib"
    /\ hist # <<>>
    /\ hist[Len(hist)].op = "move"
    /\ hist[Len(hist)].ret = None
    /\ \E removed \in BOOLEAN :
         /\ fs' = IF removed THEN RemoveFile(fs, hist[Len(hist)].arg.from) ELSE fs
         /\ result' = IF removed THEN Ok
                       ELSE Err("IoError", hist[Len(hist)].arg.from.file, "remove")
         /\ hist' = [hist EXCEPT ![Len(hist)].ret = result']
    /\ UNCHANGED <<pc, opts, app, oracle, drv, seq, procs, image>>

MoveNames == {"Pharo.image", "Pharo.sources", "Old.sources"}

NextMove ==
    \/ \E pattern \in {".*image", ".*sources"} : MoveFind(pattern, "ext")
    \/ \E pattern \in {".*image", ".*sources"}, dest \in Destinations :
          MoveByPattern(pattern, "ext", dest)
    \/ \E name \in MoveNames, dest \in Destinations :
          MoveByPath(MovePath("ext", name), dest)
    \/ MoveRemove

\* the directory of the expanded seed holds some of the seed's files and
\* perhaps a directory with a matching name; the workspace exists and may
\* hold a file or a directory under the names the move will use
InitMove ==
    /\ pc = "lib"
    /\ result = None
    /\ opts \in {o \in Options : ~o.overwrite /\ o.image_seed = SeedUrl
                                   /\ o.public_key = "none" /\ o.private_key = "none"}
    /\ app = LibApplication
    /\ \E seed_files \in SUBSET MoveNames,
          seed_dirs \in SUBSET {"Backup.sources"},
          ws_files \in SUBSET {"Pharo.sources"},
          ws_dirs \in SUBSET {"GlamorousToolkit.image"} :
         fs = [d \in Dirs |->
                 IF d = "ext"
                 THEN [Dir(TRUE, seed_files, NoYaml) EXCEPT !.dirs = seed_dirs]
                 ELSE [Dir(TRUE, ws_files, NoYaml) EXCEPT !.dirs = ws_dirs]]
    /\ oracle = 0
    /\ drv = [k \in Drivers |-> IdleDrv]
    /\ seq = IdleSeq
    /\ procs = <<>>
    /\ image = {}
    /\ hist = <<>>

SpecMove == InitMove /\ [][NextMove]_vars

----------------------------------------------------------------------------
(* One step on its own: SmalltalkScriptToExecute, SmalltalkExpression and   *)
(* SmalltalkCommand executed with a SmalltalkEvaluator, src/smalltalk       *)

\* the evaluators a step is executed with: the fields of SmalltalkEvaluator
\* and the flag the interpreter's SmalltalkFlags answer, "" for none
StepEvaluators ==
    [exe : {"gtoolkit"}, should_save : BOOLEAN, should_quit : BOOLEAN,
     interactive : BOOLEAN, verbose : BOOLEAN, use_image : BOOLEAN,
     flag : {"", "--headless"}]

\* the steps: a script file, an expression, sub-commands with arguments
StepsToExecute ==
    {[kind |-> "script", name |-> "load-patches.st", arguments |-> <<>>],
     [kind |-> "expression", name |-> "GtImageSetup performLocalSetup",
      arguments |-> <<>>],
     [kind |-> "command", name |-> "examples",
      arguments |-> <<"--junit-xml-output">>],
     [kind |-> "command", name |-> "save",
      arguments |-> <<"Bar", "--delete-old">>]}

\* SmalltalkExpression::execute: the expression handed to the interpreter,
\* with the snapshot directive joined to it by the ExpressionBuilder
ExpressionToEvaluate(step, ev) ==
    IF ev.should_save
    THEN JoinDots(<<step.name, "Smalltalk snapshot: true andQuit: false">>)
    ELSE step.name

\* the arguments of the process: those of SmalltalkEvaluator::command, then
\* the ones each kind of step adds with .arg(..)
StepArgs(step, ev) ==
    (IF ev.flag = "" THEN <<>> ELSE <<ev.flag>>)
    \o (IF ev.use_image THEN <<ImageFile(app)>> ELSE <<>>)
    \o CASE step.kind = "script" ->
              <<"st",
                IF ev.should_quit THEN "--quit" ELSE "--no-quit",
                IF ev.should_save THEN "--save" ELSE "",
                IF ev.interactive THEN "--interactive" ELSE "",
                step.name>>
         [] step.kind = "expression" ->
              <<"eval",
                IF ev.should_quit THEN "" ELSE "--no-quit",
                IF ev.interactive THEN "--interactive" ELSE "",
                ExpressionToEvaluate(step, ev)>>
         [] OTHER -> <<step.name>> \o step.arguments

\* format!("{:?}", command): the program and every argument, quoted
CommandLine(exe, args) ==
    LET line[n \in 0..Len(args)] ==
           IF n = 0 THEN "\"" \o ExecutablePath(exe) \o "\""
           ELSE line[n - 1] \o " \"" \o args[n] \o "\""
    IN  line[Len(args)]

\* the error each kind of step makes of a non-zero exit
StepFailed(step) ==
    CASE step.kind = "script" -> ScriptFailed(step)
      [] step.kind = "expression" -> Err("ExpressionFailed", step.name, "expression")
      [] OTHER -> Err("CommandFailed", step.name, "command")

\* SmalltalkEvaluator::stdout / stderr: the console if verbose, else the
\* log file of that name, opened for appending and created if absent
StepStdio(ev, log) == IF ev.verbose THEN "inherit" ELSE log

\* the external process of a step: how it is spawned, and how it ended
StepProcess(step, ev, stdout, exit, out) ==
    [exe |-> ev.exe, name |-> step.name, args |-> StepArgs(step, ev),
     stdout |-> stdout,
     stderr |-> StepStdio(ev, "install-errors.log"),
     exit |-> exit, out |-> out]

\* one more step can be executed
CanExecute ==
    /\ pc = "lib"
    /\ Len(hist) < MaxCalls

\* the step executed last is remembered with its evaluator and its result
Executed(op, step, ev) ==
    /\ hist' = Append(ForgetMoves(hist),
                      [op |-> op, arg |-> [step |-> step, ev |-> ev],
                       ret |-> result'])
    /\ UNCHANGED pc

\* the files the evaluator creates in the workspace for a process
StepLogs(ev, f) ==
    IF ev.verbose THEN f
    ELSE [f EXCEPT ![app.workspace].files =
             @ \cup {"install.log", "install-errors.log"}]

\* the interpreter is told to save its state: --save for a script, the
\* snapshot directive for an expression, the save sub-command
StepSaves(step, ev) ==
    CASE step.kind = "script" -> ev.should_save
      [] step.kind = "expression" -> ev.should_save
      [] OTHER -> step.name = "save"

\* execute of a script, an expression or a sub-command: the command is
\* built, the process is run to its end with command.status().unwrap()
StepExecute(step, ev) ==
    /\ CanExecute
    /\ IF ~ExecutableExists(ev.exe)
       THEN /\ result' = Err("CanonicalizeError", ExecutablePath(ev.exe), "step")
            /\ UNCHANGED <<fs, procs, image>>
       ELSE \E exit \in {"zero", "non_zero", "spawn_error"} :
            /\ fs' = StepLogs(ev, fs)
            /\ procs' = IF exit = "spawn_error" THEN <<>>
                        ELSE <<StepProcess(step, ev, StepStdio(ev, "install.log"),
                                           exit, "")>>
            /\ result' = CASE exit = "zero" -> Ok
                           [] exit = "non_zero" -> StepFailed(step)
                           [] OTHER -> Err("Panic", step.name, "spawn")
            /\ image' = IF exit = "zero" /\ StepSaves(step, ev)
                        THEN image \cup {step.name} ELSE image
    /\ Executed("execute", step, ev)
    /\ UNCHANGED <<opts, app, oracle, drv, seq>>

\* String::from_utf8_lossy: the text, every invalid byte replaced by U+FFFD
from_utf8_lossy(out) == IF out.utf8 THEN out.text ELSE out.text \o "<U+FFFD>"

\* str::trim
trim(text) == IF text = " v0.8.1\n" THEN "v0.8.1" ELSE text

\* ExecutableSmalltalk::execute_with_result: the command with its standard
\* output piped, run with command.output(); `out` is what the process wrote
\* to its standard output, text or bytes that are not UTF-8, and `captured`
\* is what output() holds of its standard error
execute_with_result(step, ev) ==
    /\ CanExecute
    /\ IF ~ExecutableExists(ev.exe)
       THEN /\ result' = Err("CanonicalizeError", ExecutablePath(ev.exe), "step")
            /\ UNCHANGED <<fs, procs>>
       ELSE /\ fs' = StepLogs(ev, fs)
            /\ \/ \E out \in {[text |-> " v0.8.1\n", utf8 |-> TRUE],
                              [text |-> "v0.8.1", utf8 |-> TRUE],
                              [text |-> "v0.8.", utf8 |-> FALSE]} :
                    /\ procs' = <<StepProcess(step, ev, "piped", "zero", out)>>
                    /\ result' = [Ok EXCEPT !.what = trim(from_utf8_lossy(out))]
               \/ \E captured \in {"", "doesNotUnderstand"} :
                    /\ procs' = <<StepProcess(step, ev, "piped", "non_zero", "")>>
                    /\ result' = Err("CommandFailedWithError",
                                     CommandLine(ev.exe, StepArgs(step, ev)),
                                     captured)
    /\ Executed("execute_with_result", step, ev)
    /\ UNCHANGED <<opts, app, oracle, drv, seq, image>>

NextStep ==
    \/ \E step \in StepsToExecute, ev \in StepEvaluators : StepExecute(step, ev)
    \/ \E step \in {x \in StepsToExecute : x.kind = "command"},
          ev \in StepEvaluators : execute_with_result(step, ev)

\* a workspace with or without the interpreters, and no call made yet
InitStep ==
    /\ pc = "lib"
    /\ result = None
    /\ opts \in {o \in Options : ~o.overwrite /\ o.image_seed = SeedUrl
                                   /\ o.public_key = "none" /\ o.private_key = "none"}
    /\ app = LibApplication
    /\ \E ws \in LibWorkspaces : fs = [d \in Dirs |-> IF d = "ws" THEN ws ELSE ExtDir]
    /\ oracle = 0
    /\ drv = [k \in Drivers |-> IdleDrv]
    /\ seq = IdleSeq
    /\ procs = <<>>
    /\ image = {}
    /\ hist = <<>>

SpecStep == InitStep /\ [][NextStep]_vars

----------------------------------------------------------------------------
(* Packaging a tentative release: Tentative::package, src/tools/tentative.rs *)

VM_VERSION_FILE == "gtoolkit-vm.version"

TENTATIVE == "tentative.zip"

GT_EXTRA == "gt-extra"

\* the files a workspace may hold when it is packaged
PackageNames ==
    {"Bar.image", "Old.image", "Bar.changes", "Pharo.sources",
     VM_VERSION_FILE, GTOOLKIT_VERSION_FILE}

\* the filters of package, in the order they are zipped
PackageFilters ==
    <<[kind |-> "wildmatch", pattern |-> "*.image"],
      [kind |-> "wildmatch", pattern |-> "*.changes"],
      [kind |-> "wildmatch", pattern |-> "*.sources"],
      [kind |-> "exact", pattern |-> VM_VERSION_FILE],
      [kind |-> "exact", pattern |-> GTOOLKIT_VERSION_FILE]>>

\* FileNamed::wildmatch and FileNamed::exact applied to a file name
FilterMatches(filter, name) ==
    IF filter.kind = "exact" THEN name = filter.pattern
    ELSE CASE filter.pattern = "*.image" -> name \in {"Bar.image", "Old.image"}
           [] filter.pattern = "*.changes" -> name = "Bar.changes"
           [] filter.pattern = "*.sources" -> name = "Pharo.sources"
           [] OTHER -> FALSE

\* OneEntry::as_path_buf: the one file of the directory the filter matches
as_path_buf(filter, f, directory) ==
    LET matches == {n \in f[directory].files : FilterMatches(filter, n)} IN
    CASE Cardinality(matches) = 0 ->
            [file |-> "", ret |-> Err("FileMatcherError", filter.pattern, "not_exists")]
      [] Cardinality(matches) = 1 ->
            [file |-> CHOOSE n \in matches : TRUE, ret |-> Ok]
      [] OTHER ->
            [file |-> "", ret |-> Err("FileMatcherError", filter.pattern, "too_many")]

\* for ref filter in filters { zip_file(&mut zip, filter.as_path_buf()?, ..)? }
\* from the n-th filter on: the entries written, and the first error
RECURSIVE ZipFiles(_, _, _, _)
ZipFiles(n, entries, f, directory) ==
    IF n > Len(PackageFilters)
    THEN [entries |-> entries, ret |-> Ok]
    ELSE LET found == as_path_buf(PackageFilters[n], f, directory) IN
         IF IsErr(found.ret)
         THEN [entries |-> entries, ret |-> found.ret]
         ELSE ZipFiles(n + 1, Append(entries, found.file), f, directory)

\* gt_extra.exists() || !ignore_absent, then zip_folder: the walk of a
\* folder that does not exist is an error
ZipExtra(zipped, ignore_absent, f, directory) ==
    IF GT_EXTRA \in f[directory].dirs
    THEN [entries |-> Append(zipped.entries, GT_EXTRA), ret |-> Ok]
    ELSE IF ignore_absent
    THEN zipped
    ELSE [entries |-> zipped.entries, ret |-> Err("IoError", GT_EXTRA, "walk")]

\* the call is remembered with its option, what it returned and the
\* entries it wrote
Packaged(ignore_absent, entries) ==
    /\ hist' = Append(ForgetMoves(hist),
                      [op |-> "package",
                       arg |-> [ignore_absent |-> ignore_absent],
                       ret |-> result', entries |-> entries])
    /\ UNCHANGED pc

\* Tentative::package: the archive is created (a panic when it cannot be),
\* the five files are zipped, the first that is absent or ambiguous ends the
\* call, then the gt-extra folder, then zip.finish()
Package(ignore_absent) ==
    /\ CanExecute
    /\ \E created \in BOOLEAN :
         IF ~created
         THEN /\ result' = Err("Panic", TENTATIVE, "create")
              /\ UNCHANGED fs
              /\ Packaged(ignore_absent, <<>>)
         ELSE LET files == ZipFiles(1, <<>>, fs, app.workspace)
                  all == IF IsErr(files.ret) THEN files
                         ELSE ZipExtra(files, ignore_absent, fs, app.workspace)
              IN  /\ result' = all.ret
                  /\ fs' = IF IsErr(all.ret)
                           THEN [fs EXCEPT !["ext"].partial = @ \cup {TENTATIVE}]
                           ELSE [fs EXCEPT !["ext"].files = @ \cup {TENTATIVE}]
                  /\ Packaged(ignore_absent, all.entries)
    /\ UNCHANGED <<opts, app, oracle, drv, seq, procs, image>>

NextPackage == \E ignore_absent \in BOOLEAN : Package(ignore_absent)

\* a workspace that holds any of the items to package
InitPackage ==
    /\ pc = "lib"
    /\ result = None
    /\ opts \in {o \in Options : ~o.overwrite /\ o.image_seed = SeedUrl
                                   /\ o.public_key = "none" /\ o.private_key = "none"}
    /\ app = LibApplication
    /\ \E files \in SUBSET PackageNames, dirs \in SUBSET {GT_EXTRA} :
         fs = [d \in Dirs |->
                 IF d = "ws"
                 THEN [Dir(TRUE, files, NoYaml) EXCEPT !.dirs = dirs]
                 ELSE ExtDir]
    /\ oracle = 0
    /\ drv = [k \in Drivers |-> IdleDrv]
    /\ seq = IdleSeq
    /\ procs = <<>>
    /\ image = {}
    /\ hist = <<>>

SpecPackage == InitPackage /\ [][NextPackage]_vars

----------------------------------------------------------------------------
(* The platform lookups of Application, src/application.rs                  *)

\* PlatformOS, each by its clap name
PlatformOS ==
    {"x86_64-apple-darwin", "aarch64-apple-darwin", "x86_64-pc-windows-msvc",
     "aarch64-pc-windows-msvc", "x86_64-unknown-linux-gnu",
     "aarch64-unknown-linux-gnu", "aarch64-linux-android"}

MacOS == {"x86_64-apple-darwin", "aarch64-apple-darwin"}
Windows == {"x86_64-pc-windows-msvc", "aarch64-pc-windows-msvc"}
Linux == {"x86_64-unknown-linux-gnu", "aarch64-unknown-linux-gnu"}
Android == {"aarch64-linux-android"}

\* std::env::consts::OS and ARCH of the machines the installer is run on:
\* one for each member of PlatformOS, and one more
Hosts ==
    {[os |-> "macos", arch |-> "x86_64"], [os |-> "macos", arch |-> "aarch64"],
     [os |-> "windows", arch |-> "x86_64"], [os |-> "windows", arch |-> "aarch64"],
     [os |-> "linux", arch |-> "x86_64"], [os |-> "linux", arch |-> "aarch64"],
     [os |-> "android", arch |-> "aarch64"], [os |-> "freebsd", arch |-> "x86_64"]}

\* what a lookup gives: a path, as its components, or a panic
Path(components) == [panic |-> FALSE, path |-> components]
Panic == [panic |-> TRUE, path |-> <<>>]

\* Application::host_platform: a match on (os, arch) whose last arm panics
host_platform(host) ==
    CASE host = [os |-> "macos", arch |-> "aarch64"] -> "aarch64-apple-darwin"
      [] host = [os |-> "macos", arch |-> "x86_64"] -> "x86_64-apple-darwin"
      [] host = [os |-> "linux", arch |-> "x86_64"] -> "x86_64-unknown-linux-gnu"
      [] host = [os |-> "linux", arch |-> "aarch64"] -> "aarch64-unknown-linux-gnu"
      [] host = [os |-> "windows", arch |-> "x86_64"] -> "x86_64-pc-windows-msvc"
      [] host = [os |-> "windows", arch |-> "aarch64"] -> "aarch64-pc-windows-msvc"
      [] OTHER -> "panic"

\* Application::gtoolkit_app_location: the workspace for the host's own
\* platform, a directory named after the target in it otherwise
gtoolkit_app_location(a, host, target) ==
    IF host_platform(host) = "panic" THEN Panic
    ELSE IF host_platform(host) = target THEN Path(<<a.workspace>>)
    ELSE Path(<<a.workspace, target>>)

\* Application::gtoolkit_app: a match on the host's platform
gtoolkit_app(host) ==
    LET platform == host_platform(host) IN
    CASE platform = "panic" -> Panic
      [] platform \in MacOS ->
            Path(<<"GlamorousToolkit.app", "Contents", "MacOS", "GlamorousToolkit">>)
      [] platform \in Windows -> Path(<<"bin", "GlamorousToolkit.exe">>)
      [] platform \in Linux -> Path(<<"bin", "GlamorousToolkit">>)
      [] OTHER -> Panic

\* the match of gtoolkit_app_cli_for_target on the target
CliOfTarget(target) ==
    CASE target \in MacOS ->
            <<"GlamorousToolkit.app", "Contents", "MacOS", "GlamorousToolkit-cli">>
      [] target \in Windows -> <<"bin", "GlamorousToolkit-cli.exe">>
      [] target \in Linux -> <<"bin", "GlamorousToolkit-cli">>
      [] OTHER -> <<"lib", "arm64-v8a", "libvm_client_android.so">>

\* Application::gtoolkit_app_cli_for_target: the binary the descriptor
\* names, or the location of the target's app joined with its cli
gtoolkit_app_cli_for_target(a, host, target) ==
    IF a.app_cli_binary THEN Path(<<"path">>)
    ELSE LET location == gtoolkit_app_location(a, host, target) IN
         IF location.panic THEN Panic
         ELSE Path(location.path \o CliOfTarget(target))

\* a lookup is remembered with the machine, the target and what it gave;
\* a panic ends the process
LookedUp(op, host, target, ret) ==
    /\ hist' = Append(ForgetMoves(hist),
                      [op |-> op, arg |-> [host |-> host, target |-> target],
                       ret |-> ret])
    /\ pc' = IF ret.panic THEN "abort" ELSE pc
    /\ UNCHANGED <<result, opts, app, fs, oracle, drv, seq, procs, image>>

LookupCli(host, target) ==
    /\ CanExecute
    /\ LookedUp("gtoolkit_app_cli_for_target", host, target,
                gtoolkit_app_cli_for_target(app, host, target))

LookupApp(host) ==
    /\ CanExecute
    /\ LookedUp("gtoolkit_app", host, host_platform(host), gtoolkit_app(host))

NextPlatform ==
    \/ \E host \in Hosts, target \in PlatformOS : LookupCli(host, target)
    \/ \E host \in Hosts : LookupApp(host)

\* a descriptor with or without a binary of its own, and no lookup made
InitPlatform ==
    /\ pc = "lib"
    /\ result = None
    /\ opts \in {o \in Options : ~o.overwrite /\ o.image_seed = SeedUrl
                                   /\ o.public_key = "none" /\ o.private_key = "none"}
    /\ app \in {LibApplication, [LibApplication EXCEPT !.app_cli_binary = TRUE]}
    /\ fs = [d \in Dirs |-> ExtDir]
    /\ oracle = 0
    /\ drv = [k \in Drivers |-> IdleDrv]
    /\ seq = IdleSeq
    /\ procs = <<>>
    /\ image = {}
    /\ hist = <<>>

SpecPlatform == InitPlatform /\ [][NextPlatform]_vars

----------------------------------------------------------------------------
(* A test run: Tester::test, src/tools/tester.rs                            *)

\* what the image holds while the deprecation rewrites are disabled
REWRITES_DISABLED == "deprecation rewrites disabled"

\* GToolkit::disable_deprecation_rewrites and enable_deprecation_rewrites,
\* whose bodies are not among the sources: by their names, the image after
\* a call that succeeded
disable_deprecation_rewrites(img) == img \cup {REWRITES_DISABLED}
enable_deprecation_rewrites(img) == img \ {REWRITES_DISABLED}

\* TestOptions: packages given or not, disable_deprecation_rewrites
TestOptions == hist[1].arg

\* one blocking call of the toolkit in a test run: the executable is
\* canonicalized, the process runs, and a failure returns from test with
\* the `?`
TestStep(at, name, next, img) ==
    /\ pc = at
    /\ IF ~ExecutableExists("gtoolkit")
       THEN /\ Exit(Err("CanonicalizeError", GT_CLI, name))
            /\ UNCHANGED <<procs, image>>
       ELSE /\ procs' = Append(procs, [exe |-> "gtoolkit", name |-> name])
            /\ \E success \in BOOLEAN :
                 IF success
                 THEN /\ pc' = next
                      /\ result' = IF next = "exit" THEN Ok ELSE result
                      /\ image' = img
                 ELSE /\ Exit(Err("CommandFailed", name, "test"))
                      /\ UNCHANGED image
    /\ UNCHANGED <<opts, app, fs, oracle, drv, seq, hist>>

\* test: if test_options.disable_deprecation_rewrites
\*           { gtoolkit.disable_deprecation_rewrites()?; }
TestDisable ==
    IF TestOptions.disable_deprecation_rewrites
    THEN TestStep("test", "disable_deprecation_rewrites",
                  IF TestOptions.packages THEN "examples" ELSE "release_examples",
                  disable_deprecation_rewrites(image))
    ELSE /\ pc = "test"
         /\ pc' = IF TestOptions.packages THEN "examples" ELSE "release_examples"
         /\ UNCHANGED <<result, opts, app, fs, oracle, drv, seq, procs, image, hist>>

\* test: gtoolkit.run_examples(packages, ..)?
TestExamples ==
    /\ pc = "examples"
    /\ TestStep("examples", "examples", "enable", image)

\* test: gtoolkit.run_release_examples(..)?
TestReleaseExamples ==
    /\ pc = "release_examples"
    /\ TestStep("release_examples", "dedicatedReleaseBranchExamples",
                "release_slides", image)

\* test: gtoolkit.run_release_slides(..)?
TestReleaseSlides ==
    /\ pc = "release_slides"
    /\ TestStep("release_slides", "dedicatedReleaseBranchSlides", "report", image)

\* test: gtoolkit.run_architectural_report()?
TestReport ==
    /\ pc = "report"
    /\ TestStep("report", "architecturalReport", "enable", image)

\* test: if test_options.disable_deprecation_rewrites
\*           { gtoolkit.enable_deprecation_rewrites()?; }  Ok(())
TestEnable ==
    IF TestOptions.disable_deprecation_rewrites
    THEN TestStep("enable", "enable_deprecation_rewrites", "exit",
                  enable_deprecation_rewrites(image))
    ELSE /\ pc = "enable"
         /\ Exit(Ok)
         /\ UNCHANGED <<opts, app, fs, oracle, drv, seq, procs, image, hist>>

NextTest ==
    \/ TestDisable
    \/ TestExamples
    \/ TestReleaseExamples
    \/ TestReleaseSlides
    \/ TestReport
    \/ TestEnable

\* a test run is entered with its options, on a workspace with or without
\* the interpreters, of a descriptor with or without a binary of its own
InitTest ==
    /\ pc = "test"
    /\ result = None
    /\ opts \in {o \in Options : ~o.overwrite /\ o.image_seed = SeedUrl
                                   /\ o.public_key = "none" /\ o.private_key = "none"}
    /\ app \in {LibApplication, [LibApplication EXCEPT !.app_cli_binary = TRUE]}
    /\ \E ws \in LibWorkspaces : fs = [d \in Dirs |-> IF d = "ws" THEN ws ELSE ExtDir]
    /\ oracle = 0
    /\ drv = [k \in Drivers |-> IdleDrv]
    /\ seq = IdleSeq
    /\ procs = <<>>
    /\ image = {}
    /\ \E packages \in BOOLEAN, disable \in BOOLEAN :
         hist = <<[op |-> "test",
                   arg |-> [packages |-> packages,
                            disable_deprecation_rewrites |-> disable],
                   ret |-> None]>>

SpecTest == InitTest /\ [][NextTest]_vars

----------------------------------------------------------------------------
(* Claims                                                                  *)

StepsOf(s) == DOMAIN s.scripts

\* C1: the sequencer starts its steps in the order supplied; when step k is
\* the first to fail, every step before k has Succeeded, k is Failed, the
\* steps after k stay Pending and launch no process, and execute returns an
\* error; it returns Ok only when every step has Succeeded
C1_FirstFailureHaltsQueue ==
    seq.active =>
      /\ \A i \in StepsOf(seq) :
           seq.status[i] # "Pending" =>
             \A j \in 1..(i - 1) : seq.status[j] = "Succeeded"
      /\ \A i \in StepsOf(seq) :
           seq.status[i] = "Failed" =>
             /\ \A j \in StepsOf(seq) : j > i => seq.status[j] = "Pending"
             /\ seq.index = i
             /\ IsErr(seq.ret)
      /\ seq.ret = Ok => \A i \in StepsOf(seq) : seq.status[i] = "Succeeded"
      /\ pc = "lib" =>
           /\ Len(procs) <= seq.index
           /\ \A n \in DOMAIN procs :
                \E i \in 1..seq.index :
                   /\ procs[n].name = seq.scripts[i].name
                   /\ seq.status[i] # "Pending"

\* a middle step failed after its predecessor succeeded, with a step left
C1_Witness ==
    /\ seq.active
    /\ Len(seq.scripts) = 3
    /\ seq.status = <<"Succeeded", "Failed", "Pending">>
    /\ IsErr(seq.ret)

\* C2: in a fetch run and in an expand run at most 2 tasks are Running at once
C2_AtMostTwoRunning ==
    \A k \in Drivers : Cardinality(Running(drv[k])) <= 2

\* two tasks are running while a third waits for a free slot
C2_Witness ==
    \E k \in Drivers :
       /\ Cardinality(Running(drv[k])) = 2
       /\ \E i \in Tasks(k) : drv[k].status[i] = "Pending"

\* C3: when a download task has failed, download() returns an error
C3_DownloadPropagatesFailure ==
    (/\ drv.download.ret # None
     /\ \E i \in Tasks("download") : drv.download.status[i] = "Failed")
       => IsErr(drv.download.ret)

Finished(k) ==
    /\ drv[k].ret # None
    /\ \A i \in Tasks(k) : drv[k].status[i] \in {"Succeeded", "Failed"}

\* C4: the stages of a build are full barriers: no unzip task has left
\* Pending before every download task has ended and download() has
\* returned; no script step has been entered before both drivers are over,
\* the seed image is saved and its sources moved into the workspace (unless
\* the seed is an image file) and both loader scripts are written
C4_StagesAreBarriers ==
    /\ (\E i \in Tasks("unzip") : drv.unzip.status[i] # "Pending")
          => Finished("download")
    /\ seq.index >= 1 =>
          /\ Finished("download")
          /\ Finished("unzip")
          /\ \E n \in DOMAIN hist : hist[n] = "render"
          /\ {"load-patches.st", "load-gt.st"} \subseteq fs[app.workspace].files
          /\ opts.image_seed.kind # "Image" =>
                /\ \E n \in DOMAIN hist : hist[n] = "relocate"
                /\ {ImageFile(app), "Pharo.sources"} \subseteq fs[app.workspace].files
                /\ SEED_SOURCES \notin fs[app.workspace].files

\* the patch step is running in a build that fetched, expanded and relocated
\* a seed given by URL
C4_Witness ==
    /\ pc = "patching"
    /\ seq.index = 1
    /\ seq.status[1] = "Running"
    /\ opts.image_seed.kind = "Url"
    /\ Len(drv.download.files) = 3
    /\ \A i \in Tasks("unzip") : drv.unzip.status[i] = "Succeeded"

\* C5: a failing stage ends the build with its error: once a download task
\* has failed the build is still in the fetch stage or has exited with that
\* task's error, the same for an unzip task, and a failed script queue is
\* followed by nothing but the exit with its error
C5_FailureAbortsPipeline ==
    /\ \A i \in Tasks("download") :
          drv.download.status[i] = "Failed" =>
             /\ pc \in {"downloading", "exit"}
             /\ drv.unzip.files = <<>>
             /\ pc = "exit" =>
                   \E j \in Tasks("download") : result = drv.download.error[j]
    /\ \A i \in Tasks("unzip") :
          drv.unzip.status[i] = "Failed" =>
             /\ pc \in {"unzipping", "exit"}
             /\ pc = "exit" =>
                   \E j \in Tasks("unzip") : result = drv.unzip.error[j]
    /\ IsErr(seq.ret) =>
          /\ pc \in {"patching", "loading", "exit"}
          /\ pc = "exit" => result = seq.ret

RefusedBy(r) == r.kind = "WorkspaceAlreadyExists"

\* C6: when check is entered on a directory that exists and overwrite is not
\* set, it returns the already-exists error and the file system is as it
\* was; a build that ended with that error has started no fetch, expand or
\* script work and has launched no process
C6_ExistingWorkspaceRefused ==
    /\ [][(pc = "check" /\ fs[app.workspace].exists /\ ~opts.overwrite)
             => (pc' = "exit" /\ RefusedBy(result') /\ fs' = fs)]_vars
    /\ []((pc = "exit" /\ RefusedBy(result)) =>
             /\ drv = [k \in Drivers |-> IdleDrv]
             /\ seq = IdleSeq
             /\ procs = <<>>
             /\ image = {}
             /\ hist = <<>>
             /\ fs[app.workspace].exists
             /\ fs[app.workspace].partial = {})

\* the build was refused on a workspace that holds an earlier installation
C6_Witness ==
    /\ pc = "exit"
    /\ RefusedBy(result)
    /\ ~opts.overwrite
    /\ {"old", STATE_FILE} \subseteq fs["ws"].files

\* C7: when check is entered on a directory that exists and overwrite is
\* set, a successful check leaves the directory in existence and empty
C7_OverwriteEmptiesWorkspace ==
    [][(pc = "check" /\ fs[app.workspace].exists /\ opts.overwrite
           /\ pc' = "serialize")
          => fs'[app.workspace] = Dir(TRUE, {}, NoYaml)]_vars

\* the check succeeded with overwrite on a workspace whose state file the
\* descriptor was loaded from
C7_Witness ==
    /\ pc = "serialize"
    /\ opts.overwrite
    /\ app.workspace = "ws"
    /\ app.app_version = VALID_VERSION
    /\ fs["ws"] = Dir(TRUE, {}, NoYaml)

DownloadStarted == drv.download.files # <<>>

\* C8: in a build without overwrite, whenever the fetch run has been
\* entered the workspace exists and holds the one state file there is, with
\* the descriptor in it; and when such a build has ended with a failed
\* download task the state file is still there, the snapshot has no toolkit
\* loaded and the toolkit-loading step has launched no process
C8_StateFileBeforeFetch ==
    (~opts.overwrite /\ DownloadStarted) =>
       /\ fs[app.workspace].exists
       /\ {d \in Dirs : STATE_FILE \in fs[d].files} = {app.workspace}
       /\ fs[app.workspace].yaml = Yaml("valid", ToYaml(app))
       /\ (pc = "exit" /\ \E i \in Tasks("download") :
                               drv.download.status[i] = "Failed") =>
             /\ "load-gt.st" \notin image
             /\ \A n \in DOMAIN procs : procs[n].name # "load-gt.st"
             /\ IsErr(result)

\* the build ended after a download answered a non-success status and the
\* later stages were entered
C8_Witness ==
    /\ pc = "exit"
    /\ ~opts.overwrite
    /\ \E i \in Tasks("download") :
          drv.download.error[i].kind = "CouldntDownloadURL"
    /\ drv.unzip.files # <<>>
    /\ StateFileExists("ws", fs)

\* C9: a build in which a download task got a non-success status ends with
\* an error that names the URL of such a task
C9_ExitNamesFailedUrl ==
    (pc = "exit" /\ \E i \in Tasks("download") :
                       drv.download.error[i].kind = "CouldntDownloadURL") =>
       /\ IsErr(result)
       /\ \E i \in Tasks("download") :
             /\ drv.download.error[i].kind = "CouldntDownloadURL"
             /\ result.what = drv.download.files[i].url

\* C10: when startup is over, the descriptor is the one of the state file
\* and the release oracle was not asked if the state file exists, and is a
\* new one with the versions the oracle answered otherwise; a state file
\* that cannot be read or parsed ends the invocation with that error
C10_StateFileIsSoleSignal ==
    /\ pc = "build" =>
          IF StateFileExists(opts.workspace, fs)
          THEN /\ oracle = 0
               /\ app = try_from_file(opts.workspace, fs).app
          ELSE /\ oracle = 2
               /\ app = NewApplication(opts.workspace, LATEST_VERSION,
                                       LATEST_VERSION, SeedUrl)
    /\ (StateFileExists(opts.workspace, fs) /\ hist = <<>>
           /\ fs[opts.workspace].yaml.kind # "valid" /\ pc # "run") =>
          /\ pc = "exit"
          /\ result = try_from_file(opts.workspace, fs).ret

SameDescriptor(a, b) ==
    /\ a.app_version = b.app_version
    /\ a.image_version = b.image_version
    /\ a.image_name = b.image_name
    /\ a.image_extension = b.image_extension
    /\ a.image_seed = b.image_seed

C12_ImageSeedFixesWorkspace ==
    (pc = "lib" /\ app.image_seed.kind = "Image") =>
       /\ canonicalize(app.workspace) = canonicalize(app.image_seed.dir)
       /\ seed_image_directory(app.image_seed, app)
             = target_image_directory(app.image_seed, app)

LastCall == hist[Len(hist)]

\* C13: when set_image_seed was called with an image file and succeeded, the
\* workspace is the canonical directory of the file, the image name is its
\* stem and the image extension its extension (./ws/Bar.tar.gz gives ws,
\* Bar.tar and gz); when the file has no stem or no extension the call has
\* failed; a rename that succeeded left the new name and "image"
C13_ImageSeedDerivesName ==
    (pc = "lib" /\ hist # <<>>) =>
       /\ (LastCall.op = "set_image_seed" /\ LastCall.arg.kind = "Image") =>
             LET seed == LastCall.arg IN
             /\ LastCall.ret = Ok =>
                   /\ DirExists(fs, seed.dir)
                   /\ app.workspace = canonicalize(seed.dir)
                   /\ app.image_name = FileStem(seed.file)
                   /\ app.image_extension = FileExtension(seed.file)
                   /\ app.image_seed = seed
             /\ (~HasStem(seed.file) \/ ~HasExtension(seed.file)) =>
                   IsErr(LastCall.ret)
             /\ (seed = ImageSeed("Image", "./ws", "Bar.tar.gz")
                     /\ LastCall.ret = Ok) =>
                   /\ app.workspace = "ws"
                   /\ app.image_name = "Bar.tar"
                   /\ app.image_extension = "gz"
             /\ seed.file \in {"Seed", ".image", ".."} => IsErr(LastCall.ret)
       /\ (LastCall.op = "rename" /\ LastCall.ret = Ok) =>
             /\ app.image_name = LastCall.arg.file
             /\ app.image_extension = "image"
             /\ app.image_seed.kind = "Image"

\* the seed was set to ./ws/Bar.tar.gz with success
C13_Witness ==
    /\ pc = "lib"
    /\ hist # <<>>
    /\ LastCall.op = "set_image_seed"
    /\ LastCall.arg = ImageSeed("Image", "./ws", "Bar.tar.gz")
    /\ LastCall.ret = Ok
    /\ app.image_name = "Bar.tar"

Ended(d) == {i \in DOMAIN d.files : d.status[i] \in {"Succeeded", "Failed"}}

\* C14: the overall bar of a fetch or expand run never goes back, moves by
\* exactly one and only in a step in which one ended task is counted, never
\* shows more than the number of ended tasks, and shows the number of files
\* when the run has returned Ok
C14_ProgressCountsCompletions ==
    /\ [][\A k \in Drivers :
            (drv'[k].files = drv[k].files
                /\ drv'[k].main_pb # drv[k].main_pb) =>
               /\ drv'[k].main_pb = drv[k].main_pb + 1
               /\ \E i \in Ended(drv[k]) :
                     /\ ~drv[k].counted[i]
                     /\ drv'[k].status = drv[k].status
                     /\ drv'[k].counted = [drv[k].counted EXCEPT ![i] = TRUE]]_vars
    /\ [](\A k \in Drivers :
            /\ drv[k].main_pb <= Cardinality(Ended(drv[k]))
            /\ drv[k].main_pb <= Len(drv[k].files)
            /\ drv[k].ret = Ok => drv[k].main_pb = Len(drv[k].files))

\* a run over the most files has returned Ok with the bar at its length,
\* one task having failed
C14_Witness ==
    \E k \in Drivers :
       /\ pc = "lib"
       /\ Len(drv[k].files) = MaxTasks
       /\ drv[k].ret = Ok
       /\ drv[k].main_pb = MaxTasks
       /\ \E i \in Tasks(k) : drv[k].status[i] = "Failed"

\* C15: find_file_matching has returned the no-match error when no regular
\* file of the directory matches the pattern, the one matching file when
\* there is exactly one, and the more-than-one error, never a file, when
\* two or more match
C15_FindOneOrFail ==
    (pc = "lib" /\ hist # <<>> /\ LastCall.op = "find") =>
       LET matching == {n \in RegularFiles(fs, LastCall.arg.from.dir) :
                           Matches(LastCall.arg.pattern, n)}
       IN  /\ matching = {} => LastCall.ret.kind = "CouldNotFindFile"
           /\ Cardinality(matching) = 1 =>
                 /\ LastCall.ret = Ok
                 /\ LastCall.arg.from.file \in matching
           /\ Cardinality(matching) >= 2 =>
                 /\ LastCall.ret.kind = "FoundMoreThanOne"
                 /\ LastCall.arg.from.file = ""

\* two files and a directory match the pattern and the search has failed
C15_Witness ==
    /\ pc = "lib"
    /\ hist # <<>>
    /\ LastCall.op = "find"
    /\ LastCall.arg.pattern = ".*sources"
    /\ {"Pharo.sources", "Old.sources"} \subseteq fs["ext"].files
    /\ "Backup.sources" \in fs["ext"].dirs
    /\ LastCall.ret.kind = "FoundMoreThanOne"

\* the path a finished move has copied to
MovedTo == MoveTarget(fs, LastCall.arg.from.file, LastCall.arg.destination)

C17_UnsafeEntrySkipped ==
    \A i \in DOMAIN drv.unzip.files :
       LET f == drv.unzip.files[i]
           inside == {e \in Contents(f.file_name) : e.enclosed}
           outside == {e \in Contents(f.file_name) : ~e.enclosed}
       IN  /\ \A e \in outside, d \in Dirs :
                 e.name \notin fs[d].files \cup fs[d].partial
           /\ drv.unzip.status[i] = "Succeeded" =>
                 \A e \in inside : e.name \in fs[f.output].files
           /\ (drv.unzip.status[i] = "Failed"
                  /\ drv.unzip.error[i].at = "extract") =>
                 \E e \in inside : e.name \notin fs[f.output].files

\* an archive with an entry that leaves the output directory has been
\* expanded and its task has succeeded
C17_Witness ==
    \E i \in DOMAIN drv.unzip.files :
       /\ drv.unzip.status[i] = "Succeeded"
       /\ \E e \in Contents(drv.unzip.files[i].file_name) : ~e.enclosed
       /\ \E e \in Contents(drv.unzip.files[i].file_name) :
             e.enclosed /\ e.name \in fs[drv.unzip.files[i].output].files

\* C18: when an unzip task has been aborted by an I/O error on its archive
\* or on an output file, unzip() returns an error to its caller
C18_UnzipReportsFailure ==
    (/\ drv.unzip.ret # None
     /\ \E i \in Tasks("unzip") :
           /\ drv.unzip.status[i] = "Failed"
           /\ drv.unzip.error[i].at \in {"open", "extract"})
       => IsErr(drv.unzip.ret)

\* the output file of a download task is there, whole or truncated
Touched(i) ==
    LET f == drv.download.files[i]
    IN  f.file_name \in fs[f.directory].files \cup fs[f.directory].partial

\* C19: a download task's probe comes first: the step in which the probe
\* fails the task leaves the file system alone, a task failed by its probe
\* has never created its file nor sent the body request, a file is created
\* only by a task whose probe succeeded, and the probe fails a task only by
\* a non-success status or a send error, never by a missing or unusable
\* Content-Length, for which the size is 0
C19_ProbeComesFirst ==
    /\ [][\A i \in Tasks("download") :
            (TaskAt("download", i, "probe") /\ drv'.download.phase[i] = "probe"
               /\ drv'.download.status[i] = "Failed") => fs' = fs]_vars
    /\ [][\A i \in Tasks("download") :
            (TaskAt("download", i, "probe") /\ drv'.download.phase[i] # "probe") =>
               /\ drv'.download.status[i] = "Running"
               /\ drv'.download.phase[i] = "create"
               /\ drv'.download.download_size[i] \in {0, ParseLength("1024")}]_vars
    /\ [](\A i \in Tasks("download") :
            /\ (drv.download.status[i] = "Failed"
                  /\ drv.download.phase[i] = "probe") =>
                  /\ ~Touched(i)
                  /\ drv.download.error[i].kind
                        \in {"CouldntDownloadURL", "ReqwestError"}
            /\ Touched(i) =>
                  /\ drv.download.phase[i] = "body"
                  /\ drv.download.status[i] # "Pending")

\* one task has been failed by a non-success probe, another has passed its
\* probe without a usable Content-Length and is receiving the body
C19_Witness ==
    \E i, j \in Tasks("download") :
       /\ drv.download.status[i] = "Failed"
       /\ drv.download.error[i] =
             Err("CouldntDownloadURL", drv.download.files[i].url, "probe")
       /\ ~Touched(i)
       /\ drv.download.status[j] = "Running"
       /\ drv.download.phase[j] = "body"
       /\ drv.download.download_size[j] = 0
       /\ Touched(j)

\* how far a download task has come: not spawned, at its probe, at the
\* creation of its file, at its body request, over
Position(d, i) ==
    CASE d.status[i] = "Pending" -> 0
      [] d.status[i] \in {"Succeeded", "Failed"} -> 4
      [] d.phase[i] = "probe" -> 1
      [] d.phase[i] = "create" -> 2
      [] OTHER -> 3

\* C20: nothing is tried again: every step of a download task takes it
\* forward, so it passes its probe and its body request at most once; a
\* task that has Failed stays Failed with the same error; and a build in
\* which a download task has failed exits with an error
C20_NoRetry ==
    /\ [][\A i \in Tasks("download") :
            drv'.download.files = drv.download.files =>
               /\ Position(drv'.download, i) >= Position(drv.download, i)
               /\ (\/ drv'.download.status[i] # drv.download.status[i]
                   \/ drv'.download.phase[i] # drv.download.phase[i]
                   \/ drv'.download.error[i] # drv.download.error[i]) =>
                     Position(drv'.download, i) > Position(drv.download, i)
               /\ drv.download.status[i] = "Failed" =>
                     drv'.download.status[i] = "Failed"]_vars
    /\ []((pc = "exit" /\ \E i \in Tasks("download") :
                             drv.download.status[i] = "Failed")
             => IsErr(result))

\* a build has exited after the body request of one of its download tasks
\* failed and after another was refused by its probe
C20_Witness ==
    /\ pc = "exit"
    /\ IsErr(result)
    /\ \E i, j \in Tasks("download") :
          /\ drv.download.status[i] = "Failed"
          /\ drv.download.phase[i] = "body"
          /\ drv.download.status[j] = "Failed"
          /\ drv.download.phase[j] = "probe"

\* the process of the step executed last
LastProcess == procs[1]

\* a step was executed by `op` and its process was spawned
Spawned(op) ==
    /\ pc = "lib"
    /\ hist # <<>>
    /\ LastCall.op = op
    /\ procs # <<>>

\* C21: for every kind of step, a non-zero exit of the process has been
\* returned as a CommandExecutionFailed error that carries the whole command
\* line: the executable and every argument
C21_FailureCarriesCommandLine ==
    (Spawned("execute") /\ LastProcess.exit = "non_zero") =>
       /\ result.kind = "CommandExecutionFailed"
       /\ result.what = CommandLine(LastProcess.exe, LastProcess.args)

\* C22: execute_with_result has returned the trimmed standard output when
\* the process exited zero and the output is text, and an error when the
\* process exited non-zero or the output is not text
C22_ResultIsDecodedOutput ==
    Spawned("execute_with_result") =>
       IF LastProcess.exit = "non_zero" THEN IsErr(result)
       ELSE IF LastProcess.out.utf8
            THEN result = [Ok EXCEPT !.what = trim(LastProcess.out.text)]
            ELSE IsErr(result)

\* C23: the arguments of a script or expression step are <image> <verb>
\* [--quit|--no-quit] [--save] [--interactive] <script or expression>: the
\* image first when it is used, then the verb, --no-quit when the step
\* does not quit, no argument for a flag that is off, the script or the
\* expression last
C23_ArgumentGrammar ==
    (Spawned("execute") /\ LastCall.arg.step.kind \in {"script", "expression"}) =>
       LET a == LastProcess.args
           ev == LastCall.arg.ev
           step == LastCall.arg.step
       IN  /\ \A n \in DOMAIN a : a[n] # ""
           /\ ev.use_image =>
                 /\ a[1] = ImageFile(app)
                 /\ a[2] = (IF step.kind = "script" THEN "st" ELSE "eval")
           /\ ~ev.should_quit => \E n \in DOMAIN a : a[n] = "--no-quit"
           /\ a[Len(a)] = (IF step.kind = "script" THEN step.name
                           ELSE ExpressionToEvaluate(step, ev))

\* C24: an interactive step has run with the interactive flag and with the
\* console as its standard output and error; a step that is not
\* interactive has run with install.log and install-errors.log as them
C24_InteractiveInheritsConsole ==
    Spawned("execute") =>
       IF LastCall.arg.ev.interactive
       THEN /\ \E n \in DOMAIN LastProcess.args :
                  LastProcess.args[n] = "--interactive"
            /\ LastProcess.stdout = "inherit"
            /\ LastProcess.stderr = "inherit"
       ELSE /\ LastProcess.stdout = "install.log"
            /\ LastProcess.stderr = "install-errors.log"
            /\ {"install.log", "install-errors.log"}
                  \subseteq fs[app.workspace].files

\* C25: a step of any kind executed with should_save has, when it
\* succeeded, saved the interpreter's state; an expression is handed over
\* with the snapshot directive after it exactly when should_save is set
C25_SaveIsNeverIgnored ==
    Spawned("execute") =>
       /\ (LastCall.arg.ev.should_save /\ LastCall.ret = Ok) =>
             LastCall.arg.step.name \in image
       /\ LastCall.arg.step.kind = "expression" =>
             LastProcess.args[Len(LastProcess.args)] =
                IF LastCall.arg.ev.should_save
                THEN JoinDots(<<LastCall.arg.step.name,
                                "Smalltalk snapshot: true andQuit: false">>)
                ELSE LastCall.arg.step.name

\* the archive of the given name is in the set handed to download()
Fetched(name) ==
    \E i \in Tasks("download") : drv.download.files[i].file_name = name

\* the archive of the given name is in the set handed to unzip()
Expanded(name) ==
    \E i \in Tasks("unzip") : drv.unzip.files[i].file_name = name

\* the archive the seed of this build comes in, if it comes in one
SeedArchive ==
    IF opts.image_seed.kind = "Zip" THEN opts.image_seed.file ELSE SEED_IMAGE_ZIP

\* the build has passed the stage of the given name
Passed(stage) == \E n \in DOMAIN hist : hist[n] = stage

\* the seed's share of a build: the seed archive is fetched iff the seed is
\* a URL, expanded iff it is a URL or an archive, and the seed image is
\* located, saved again and its sources moved iff the seed is no image file
SeedDecidesSeedWork ==
    /\ drv.download.files # <<>> =>
          (Fetched(SEED_IMAGE_ZIP) <=> opts.image_seed.kind = "Url")
    /\ drv.unzip.files # <<>> =>
          (Expanded(SeedArchive) <=> opts.image_seed.kind \in {"Url", "Zip"})
    /\ pc \in {"find_image", "save_seed", "move_sources"} =>
          /\ opts.image_seed.kind # "Image"
          /\ Passed("unzip")
    /\ Passed("relocate") => opts.image_seed.kind # "Image"
    /\ (Passed("unzip") /\ pc \in {"loader", "create_scripts", "patch"}) =>
          (Passed("relocate") <=> opts.image_seed.kind # "Image")

\* C26: the seed variant decides the seed work, the base VM archive is
\* fetched and expanded in every build, and the runtime archive is fetched
\* and expanded in every build of a descriptor that names no runtime binary
\* of its own, and in no other
C26_SeedDecidesSeedWork ==
    /\ SeedDecidesSeedWork
    /\ drv.download.files # <<>> =>
          /\ Fetched(PHARO_VM_ZIP)
          /\ Fetched(APP_ZIP) <=> ~app.app_cli_binary
    /\ drv.unzip.files # <<>> =>
          /\ Expanded(PHARO_VM_ZIP)
          /\ Expanded(APP_ZIP) <=> ~app.app_cli_binary

\* C26 as stated: the seed variant decides the seed work, and the runtime
\* and the base VM archives are fetched and expanded in every build
C26_RuntimeAlwaysFetched ==
    /\ SeedDecidesSeedWork
    /\ drv.download.files # <<>> => (Fetched(PHARO_VM_ZIP) /\ Fetched(APP_ZIP))
    /\ drv.unzip.files # <<>> => (Expanded(PHARO_VM_ZIP) /\ Expanded(APP_ZIP))

\* a build from an archive on disk, of a descriptor with a runtime binary
\* of its own, has expanded the base VM and the seed archive only, fetched
\* the base VM only, and is locating the seed image
C26_Witness ==
    /\ pc = "find_image"
    /\ opts.image_seed.kind = "Zip"
    /\ app.app_cli_binary
    /\ Len(drv.download.files) = 1
    /\ Len(drv.unzip.files) = 2
    /\ Expanded(SeedArchive)
    /\ ~Fetched(SEED_IMAGE_ZIP)

\* the toolkit-loading stage of the build has been entered
ToolkitStage == seq.evaluator.exe = "gtoolkit" /\ seq.scripts # <<>>

\* both key paths were given and both files exist
KeysSupplied == opts.public_key = "exists" /\ opts.private_key = "exists"

\* a process of the toolkit's interpreter was launched for the given step
Launched(step) ==
    \E n \in DOMAIN procs :
       procs[n].exe = "gtoolkit" /\ procs[n].name = step.name

\* C27: in the toolkit-loading stage, with key paths supplied the queue is
\* the credentials expression followed by the loader script, the loader
\* script is launched only after the expression has succeeded and stays
\* Pending when it failed; with no key paths the queue is the loader script
\* alone; and with anything else the stage is not entered
C27_CredentialsBeforeLoader ==
    ToolkitStage =>
       /\ pc \in {"loading", "exit"}
       /\ IF KeysSupplied
          THEN /\ seq.scripts = <<SshExpression, LoaderScript>>
               /\ Launched(LoaderScript) =>
                     (Launched(SshExpression) /\ seq.status[1] = "Succeeded")
               /\ seq.status[1] = "Failed" =>
                     /\ seq.status[2] = "Pending"
                     /\ ~Launched(LoaderScript)
                     /\ IsErr(seq.ret)
          ELSE /\ opts.public_key = "none"
               /\ opts.private_key = "none"
               /\ seq.scripts = <<LoaderScript>>
               /\ ~Launched(SshExpression)

\* the loader script is running after the credentials expression succeeded,
\* each in a process of the toolkit's interpreter, the expression's first
C27_Witness ==
    /\ pc = "loading"
    /\ KeysSupplied
    /\ seq.status = <<"Succeeded", "Running">>
    /\ procs[Len(procs) - 1] = [exe |-> "gtoolkit", name |-> "ssh"]
    /\ procs[Len(procs)] = [exe |-> "gtoolkit", name |-> "load-gt.st"]

\* the patch stage of the build has been entered and is the last entered
PatchStage == seq.evaluator.exe = "pharo" /\ seq.scripts # <<>>

\* C28: the patch script runs alone on the pharo executable with
\* should_save set; the toolkit-loading queue runs on the toolkit's own
\* interpreter with should_save set, and is entered only after the patch
\* script has succeeded and the image with the patches is saved; after a
\* failed patch step no process of the toolkit's interpreter is launched
\* and the build exits with the step's error; a loader script that
\* succeeded has saved the image
C28_PatchThenToolkit ==
    /\ PatchStage =>
          /\ seq.scripts = <<PatchScript>>
          /\ seq.evaluator.should_save
          /\ pc \in {"patching", "toolkit", "exit"}
          /\ \A n \in DOMAIN procs :
                procs[n].name = PatchScript.name => procs[n].exe = "pharo"
          /\ IsErr(seq.ret) =>
                /\ pc \in {"patching", "exit"}
                /\ pc = "exit" => result = seq.ret
                /\ \A n \in DOMAIN procs : procs[n].exe # "gtoolkit"
                /\ ~Passed("patch")
    /\ ToolkitStage =>
          /\ seq.evaluator.should_save
          /\ seq.scripts[Len(seq.scripts)] = LoaderScript
          /\ Passed("patch")
          /\ PatchScript.name \in image
          /\ \E n \in DOMAIN procs :
                procs[n] = [exe |-> "pharo", name |-> PatchScript.name]
          /\ seq.status[Len(seq.scripts)] = "Succeeded" =>
                LoaderScript.name \in image
    /\ (\E n \in DOMAIN procs : procs[n].exe = "gtoolkit") => ToolkitStage

\* the loader script is running on the toolkit's interpreter in a build
\* whose patch script ran on pharo and was saved
C28_Witness ==
    /\ pc = "loading"
    /\ seq.scripts = <<LoaderScript>>
    /\ seq.status = <<"Running">>
    /\ seq.spawned
    /\ procs[Len(procs)] = [exe |-> "gtoolkit", name |-> "load-gt.st"]
    /\ procs[Len(procs) - 1] = [exe |-> "pharo", name |-> "load-patches.st"]
    /\ image = {"load-patches.st"}

\* a descriptor was asked for, for a workspace that holds no state file
\* and no version file, without a version given
Provisioned ==
    /\ pc = "lib"
    /\ hist # <<>>
    /\ LastCall.op \in {"for_workspace", "ensure_gtoolkit_version"}
    /\ LastCall.arg.file = ""
    /\ ~StateFileExists(LastCall.arg.dir, fs)
    /\ GTOOLKIT_VERSION_FILE \notin fs[canonicalize(LastCall.arg.dir)].files

\* C29: provisioning either fails with a version-undiscoverable error and
\* leaves the descriptor as it was, or succeeds with the versions the
\* oracle reported, never with a version of its own, and (for a new
\* descriptor) with the public URL as the seed
C29_NoDefaultVersion ==
    Provisioned =>
       IF IsErr(result)
       THEN result.kind \in {"FailedToDetectGlamorousAppVersion",
                             "FailedToDetectGlamorousImageVersion"}
       ELSE IF LastCall.op = "for_workspace"
       THEN app = NewApplication(LastCall.arg.dir, LATEST_VERSION,
                                 LATEST_VERSION, SeedUrl)
       ELSE result.what = LATEST_VERSION

\* the items of the workspace that package is to put into the archive
ItemsPresent ==
    {n \in fs[app.workspace].files :
        \E k \in DOMAIN PackageFilters : FilterMatches(PackageFilters[k], n)}
       \cup (fs[app.workspace].dirs \cap {GT_EXTRA})

\* the names of the entries a call of package wrote
EntriesOf(call) == {call.entries[k] : k \in DOMAIN call.entries}

\* C30: with ignore_absent set, a call of package that could create its
\* archive has returned Ok whatever items the workspace lacks, and the
\* archive holds every item the workspace has
C30_IgnoreAbsentPackages ==
    (pc = "lib" /\ hist # <<>> /\ LastCall.op = "package"
       /\ LastCall.arg.ignore_absent /\ result.kind # "Panic") =>
       /\ result = Ok
       /\ ItemsPresent \subseteq EntriesOf(LastCall)

\* the machines that are members of the enumeration of targets
SupportedHosts == Hosts \ {[os |-> "freebsd", arch |-> "x86_64"]}

\* the file names of the lookups that end in .exe
EndsInExe(path) ==
    path # <<>> /\ path[Len(path)] \in {"GlamorousToolkit-cli.exe", "GlamorousToolkit.exe"}

\* the path goes through <name>.app/Contents/MacOS
InAppBundle(path) ==
    \E i \in 1..(Len(path) - 2) :
       /\ path[i] = "GlamorousToolkit.app"
       /\ path[i + 1] = "Contents"
       /\ path[i + 2] = "MacOS"

\* a lookup of the platform tables was made on a machine of the enumeration
LookedUpOnSupported ==
    /\ hist # <<>>
    /\ LastCall.op \in {"gtoolkit_app_cli_for_target", "gtoolkit_app"}
    /\ LastCall.arg.host \in SupportedHosts
    /\ ~app.app_cli_binary

\* C31: on every machine of the enumeration and for every target of it, a
\* path lookup has not aborted and has given a path that is not empty, that
\* ends in .exe for a Windows target and goes through .app/Contents/MacOS
\* for a macOS target
C31_LookupsAreTotal ==
    LookedUpOnSupported =>
       /\ ~LastCall.ret.panic
       /\ LastCall.ret.path # <<>>
       /\ \A i \in DOMAIN LastCall.ret.path : LastCall.ret.path[i] # ""
       /\ LastCall.arg.target \in Windows => EndsInExe(LastCall.ret.path)
       /\ LastCall.arg.target \in MacOS => InAppBundle(LastCall.ret.path)

\* C32: with both key files supplied, the credentials expression of the
\* toolkit-loading queue gives the public key file as publicKey and the
\* private key file as privateKey
C32_KeysAreNotSwapped ==
    (ToolkitStage /\ KeysSupplied) =>
       /\ seq.scripts[1].kind = "expression"
       /\ seq.scripts[1].publicKey = PUBLIC_KEY
       /\ seq.scripts[1].privateKey = PRIVATE_KEY

\* the build was given an image file as its seed and has set it
SeedIsImageFile ==
    /\ opts.image_seed.kind = "Image"
    /\ pc \notin {"run", "build"}
    /\ app.image_seed = opts.image_seed

\* C33: a build whose seed is an image file is not refused because the
\* directory of the file exists, and once its workspace check is over,
\* with or without overwrite, the directory and the file are still there
C33_CheckSparesSeedImage ==
    SeedIsImageFile =>
       /\ ~(pc = "exit" /\ RefusedBy(result))
       /\ Passed("check") =>
             /\ fs[app.workspace].exists
             /\ opts.image_seed.file \in fs[app.workspace].files

\* C34: a call of set_image_seed that returns an error leaves the
\* workspace, the image name, the image extension and the seed of the
\* descriptor as they were before the call
C34_SetImageSeedIsAtomic ==
    [][(/\ pc = "lib"
        /\ Len(hist') = Len(hist) + 1
        /\ hist'[Len(hist')].op = "set_image_seed"
        /\ IsErr(result'))
          => /\ app'.workspace = app.workspace
             /\ app'.image_name = app.image_name
             /\ app'.image_extension = app.image_extension
             /\ app'.image_seed = app.image_seed]_vars

\* the file a move was called on is, whole, where the move found it
AtSource ==
    LastCall.arg.from.file \in fs[canonicalize(LastCall.arg.from.dir)].files

\* the file is, whole, where the move copies it to
AtDestination == MovedTo.file \in fs[canonicalize(MovedTo.dir)].files

TestSteps ==
    {"examples", "dedicatedReleaseBranchExamples",
     "dedicatedReleaseBranchSlides", "architecturalReport"}

\* C36: in a test run with the deprecation rewrites to be disabled, a test
\* step is launched only after the rewrites were disabled, and however the
\* run returns, also with the error of a failed step, the rewrites are
\* enabled again
C36_RewritesAreRestored ==
    TestOptions.disable_deprecation_rewrites =>
       /\ (\E n \in DOMAIN procs : procs[n].name \in TestSteps) =>
             /\ procs[1].name = "disable_deprecation_rewrites"
             /\ pc \notin {"exit", "enable"} => REWRITES_DISABLED \in image
       /\ pc = "exit" => REWRITES_DISABLED \notin image


\* the key paths of this build are rejected by ssh_keys: one of the two is
\* given without the other, or a given path names no file
KeysRejected == IsErr(ssh_keys(opts).ret)

\* C37: a build with exactly one of the two key paths, or with a key path
\* that does not exist, fails with the SSH configuration error before any
\* file is handed to the download driver and before any script step is
\* launched
C37_KeysCheckedBeforeAnyWork ==
    KeysRejected =>
       /\ drv.download.files = <<>>
       /\ procs = <<>>
       /\ pc = "exit" /\ Passed("patch") =>
             result.kind = "SshKeysConfigurationError"


\* every driver that was entered has returned, and each of its tasks ended
DriversReturned == \A k \in Drivers : drv[k].files # <<>> => Finished(k)

====
